---- MODULE Spec2Model ----
(***************************************************************************)
(* Hold-resolution checklist sessions of the RFQ decision engine.          *)
(*                                                                         *)
(* The repository has two chat front ends, each its own process:           *)
(*   discord_bot.py   one session per user id in user_sessions, answered   *)
(*                    question by question through a HoldResolutionView;   *)
(*   telegram_bot.py  one ChecklistSession per uploaded document in        *)
(*                    CHECKLIST_SESSIONS, its items found through          *)
(*                    CHECKLIST_INDEX, answered in any order.              *)
(* Both analyse an upload with `main.py --authoritative-llm`, that is with *)
(* run_authoritative_llm, whose output carries the hold-resolution         *)
(* checklist built by build_hold_resolution_checklist_for_authoritative.   *)
(*                                                                         *)
(* Texts are modelled as sets of lower-case tokens: _flatten_text is the   *)
(* union of the parts and _contains_any is a non-empty intersection with   *)
(* the keyword list.                                                       *)
(***************************************************************************)
EXTENDS Integers, Sequences, FiniteSets, Bags, TLC

VARIABLES
    program,             \* which front end this process runs, or which function is called
    args,                \* the arguments of the function called
    uploads,             \* documents received so far (each gets a fresh uuid4)
    user_sessions,       \* discord_bot.user_sessions: user id -> session dict
    views,               \* HoldResolutionView objects sent with a checklist message
    completed,           \* documents whose Discord checklist was answered to the end
    timed_out,           \* views that went 900 seconds without an interaction
    CHECKLIST_SESSIONS,  \* telegram_bot.CHECKLIST_SESSIONS: session id -> object
    CHECKLIST_INDEX,     \* telegram_bot.CHECKLIST_INDEX: item id -> session id
    heap,                \* the ChecklistSession objects still referenced
    inflight,            \* handle_callback invocations suspended at an await (a bag)
    sent,                \* consolidated responses sent, per session id
    last                 \* the handler that made the last step and what it replied

vars == <<program, args, uploads, user_sessions, views, completed, timed_out, CHECKLIST_SESSIONS,
          CHECKLIST_INDEX, heap, inflight, sent, last>>

discordVars == <<user_sessions, views, completed, timed_out>>
telegramVars == <<CHECKLIST_SESSIONS, CHECKLIST_INDEX, heap, inflight, sent>>

(***************************************************************************)
(* Bounds of the model.                                                    *)
(***************************************************************************)
MaxUploads == 2      \* PDFs sent to the Discord bot
MaxDocuments == 1    \* PDFs sent to the Telegram bot
MaxStated == 3       \* fields a parsed response states
MaxInflight == 2     \* handle_callback invocations suspended at once

Users == {"alice", "bob"}

(***************************************************************************)
(* Python dictionaries: functions whose domain is the set of keys.         *)
(***************************************************************************)
EmptyDict == [k \in {} |-> TRUE]

DictSet(d, k, v) == [x \in (DOMAIN d) \cup {k} |-> IF x = k THEN v ELSE d[x]]

DictPop(d, k) == [x \in (DOMAIN d) \ {k} |-> d[x]]

Get(d, k, default) == IF k \in DOMAIN d THEN d[k] ELSE default

(***************************************************************************)
(* The authoritative analysis: gov/decision/authoritative_llm.py           *)
(***************************************************************************)
NotStated == "Not stated in RFQ"

NotStatedText == {"not stated in rfq"}

\* str.upper() on the decision labels the model draws.
Upper(s) ==
    CASE s = "hold" -> "HOLD"
      [] s = NotStated -> "NOT STATED IN RFQ"
      [] OTHER -> s

\* The decision labels a parsed response may carry ("" is a missing field).
RawDecisions == {"BID", "HOLD", "hold", "SKIP", ""}

\* The (field, text) pairs a parsed response may state; every other field is
\* missing or empty.
Options ==
    { <<"key_facts.cyber", {"see", "clause", "list"}>>,
      <<"risk.cybersecurity", {"nist", "800-171"}>>,
      <<"risk.cybersecurity", {"cmmc", "level 2"}>>,
      <<"risk.packaging", {"mil-std-129"}>> }

Statements ==
    { c \in SUBSET Options :
        /\ Cardinality(c) <= MaxStated
        /\ \A a, b \in c : a[1] = b[1] => a = b }

Stated(c, field, missing) ==
    IF \E o \in c : o[1] = field
    THEN (CHOOSE o \in c : o[1] = field)[2]
    ELSE missing

\* The JSON object parsed from the model's response.
RawPayload(decision, c) ==
    [ decision |-> decision,
      key_facts |->
        [ rfq_number |-> Stated(c, "key_facts.rfq_number", ""),
          cyber      |-> Stated(c, "key_facts.cyber", {}),
          packaging  |-> Stated(c, "key_facts.packaging", {}),
          FDT        |-> Stated(c, "key_facts.FDT", {}),
          FOB        |-> Stated(c, "key_facts.FOB", {}) ],
      bid_risk_and_compliance_exposure |->
        [ cybersecurity     |-> Stated(c, "risk.cybersecurity", {}),
          packaging         |-> Stated(c, "risk.packaging", {}),
          FOB_FDT           |-> Stated(c, "risk.FOB_FDT", {}),
          inspection        |-> {},
          domestic_sourcing |-> {},
          hazmat            |-> Stated(c, "risk.hazmat", {}),
          schedule          |-> Stated(c, "risk.schedule", {}),
          certifications    |-> Stated(c, "risk.certifications", {}),
          other             |-> Stated(c, "risk.other", {}) ] ]

RawPayloads == { RawPayload(d, c) : d \in RawDecisions, c \in Statements }

DEFAULT_PACKAGING ==
    [ hazardous     |-> NotStatedText,
      non_hazardous |-> NotStatedText,
      marking       |-> NotStatedText,
      palletization |-> NotStatedText,
      other         |-> NotStatedText ]

\* A packaging value that is not a dict lands in the "other" subfield.
_normalize_packaging(packaging) ==
    IF packaging # {}
    THEN [DEFAULT_PACKAGING EXCEPT !.other = packaging]
    ELSE DEFAULT_PACKAGING

_apply_schema_defaults(raw) ==
    [ key_facts |->
        [ rfq_number |-> IF raw.key_facts.rfq_number = "" THEN NotStated
                         ELSE raw.key_facts.rfq_number,
          nsn        |-> NotStated,
          cyber      |-> raw.key_facts.cyber,
          packaging  |-> _normalize_packaging(raw.key_facts.packaging),
          FDT        |-> IF raw.key_facts.FDT = {} THEN NotStatedText
                         ELSE raw.key_facts.FDT,
          FOB        |-> IF raw.key_facts.FOB = {} THEN NotStatedText
                         ELSE raw.key_facts.FOB ],
      bid_risk_and_compliance_exposure |->
        [ f \in DOMAIN raw.bid_risk_and_compliance_exposure |->
            IF raw.bid_risk_and_compliance_exposure[f] = {} THEN NotStatedText
            ELSE raw.bid_risk_and_compliance_exposure[f] ],
      decision |-> IF raw.decision = "" THEN NotStated ELSE raw.decision ]

(***************************************************************************)
(* The checklist builder: gov/decision/hold_resolution.py                  *)
(***************************************************************************)
\* _flatten_text of a dict: the values joined.
FlattenDict(d) == UNION { d[k] : k \in DOMAIN d }

_contains_any(text, keywords) == text \cap keywords # {}

_append_unique(target, item) ==
    IF Get(item, "question", "") = "" THEN target
    ELSE IF \E i \in 1..Len(target) : Get(target[i], "question", "") = item.question
         THEN target
         ELSE Append(target, item)

SprsItem ==
    [ id |-> "sprs_score",
      question |-> "Do you currently have a valid NIST SP 800-171 assessment posted in SPRS?",
      blocking |-> TRUE,
      clause |-> "DFARS 252.204-7019 / 7020" ]

\* A faulty variant: the CMMC item filed under the id of the SPRS item.
CmmcItemSharingId ==
    [ id |-> "sprs_score",
      question |-> "Have you completed a CMMC Level 2 self-assessment?",
      blocking |-> TRUE,
      clause |-> "CMMC Level 2 / RD004" ]

CmmcItem ==
    [ id |-> "cmmc_l2",
      question |-> "Have you completed a CMMC Level 2 self-assessment?",
      blocking |-> TRUE,
      clause |-> "CMMC Level 2 / RD004" ]

JcpItem ==
    [ id |-> "jcp",
      question |-> "Is your organization JCP certified for export-controlled technical data?",
      blocking |-> TRUE,
      clause |-> "ITAR / Export Control" ]

PackagingItem ==
    [ id |-> "packaging",
      question |-> "Can your supplier comply with MIL-STD-129 and DLA packaging requirements?",
      blocking |-> FALSE ]

FdtItem ==
    [ id |-> "fdt",
      question |-> "Do you understand and have experience with FOB Origin under FDT?",
      blocking |-> FALSE ]

HazmatItem ==
    [ id |-> "hazmat",
      question |-> "Can you provide SDS/MSDS documentation for hazardous material handling?",
      blocking |-> FALSE ]

build_hold_resolution_checklist_for_authoritative(result) ==
    IF Upper(result.decision) # "HOLD" THEN << >>
    ELSE
    LET key_facts == result.key_facts
        risks == result.bid_risk_and_compliance_exposure
        cyber_text == key_facts.cyber \cup risks.cybersecurity
        cert_text == risks.certifications \cup risks.other
        packaging_text == risks.packaging \cup FlattenDict(key_facts.packaging)
        fdt_text == risks.FOB_FDT \cup key_facts.FDT \cup key_facts.FOB
        hazmat_text == risks.hazmat
        c0 == << >>
        c1 == IF \/ _contains_any(cyber_text,
                       {"sprs", "800-171", "nist", "7019", "7020", "7012"})
                 \/ key_facts.cyber # {}
              THEN _append_unique(c0, SprsItem) ELSE c0
        c2 == IF _contains_any(cyber_text,
                       {"cmmc", "level 2", "level ii", "rd004", "rd 004"})
              THEN _append_unique(c1, CmmcItem) ELSE c1
        c3 == IF _contains_any(cert_text,
                       {"jcp", "export", "itar", "ear", "usml", "dfars 252.204-7008"})
              THEN _append_unique(c2, JcpItem) ELSE c2
        c4 == IF _contains_any(packaging_text,
                       {"mil-std-129", "astm d3951", "rp001", "packaging"})
              THEN _append_unique(c3, PackagingItem) ELSE c3
        c5 == IF _contains_any(fdt_text,
                       {"fdt", "first destination transportation", "fob origin", "origin"})
              THEN _append_unique(c4, FdtItem) ELSE c4
        c6 == IF _contains_any(hazmat_text, {"hazard", "sds", "msds"})
              THEN _append_unique(c5, HazmatItem) ELSE c5
    IN  c6

\* The JSON object main.py prints in --authoritative-llm mode.
run_authoritative_llm(parsed) ==
    LET normalized == _apply_schema_defaults(parsed)
        checklist == build_hold_resolution_checklist_for_authoritative(normalized)
    IN  IF checklist # << >>
        THEN [ key_facts |-> normalized.key_facts,
               bid_risk_and_compliance_exposure |->
                   normalized.bid_risk_and_compliance_exposure,
               decision |-> normalized.decision,
               hold_resolution_checklist |-> checklist ]
        ELSE normalized

\* What run_analysis can return to a front end.
Analyses == { run_authoritative_llm(p) : p \in RawPayloads }

\* run_analysis runs main.py in a subprocess: it returns the JSON printed, or
\* raises (a timeout, a non-zero exit, output that is not JSON).
AnalysisOutcomes ==
    { [ok |-> TRUE, data |-> a] : a \in Analyses }
        \cup { [ok |-> FALSE, error |-> e] : e \in {"timeout", "failed"} }

\* Only a PDF is analysed.
AnalysesFor(kind) ==
    IF kind = "pdf" THEN AnalysisOutcomes ELSE {[ok |-> FALSE, error |-> "none"]}

(***************************************************************************)
(* discord_bot.py                                                          *)
(***************************************************************************)
\* _pick_first(data, ["decision", ...]): the authoritative output always
\* carries a non-empty "decision".
_derive_decision(data) ==
    LET decision == Get(data, "decision", "")
    IN  IF Upper(decision) = "" THEN "UNKNOWN" ELSE Upper(decision)

_derive_hold_resolution_checklist(data) ==
    Get(data, "hold_resolution_checklist", << >>)

\* The key of the normalized item is blocks_bid_if_no, read from the key of
\* the same name of the item given.
NormalizedItem(item, index) ==
    [ id |-> Get(item, "id", <<"hold", index>>),
      question |-> item.question,
      blocks_bid_if_no |-> Get(item, "blocks_bid_if_no", FALSE) ]

RECURSIVE NormalizeFrom(_, _)
NormalizeFrom(checklist, index) ==
    IF index > Len(checklist) THEN << >>
    ELSE IF Get(checklist[index], "question", "") = ""
         THEN NormalizeFrom(checklist, index + 1)
         ELSE <<NormalizedItem(checklist[index], index)>>
                  \o NormalizeFrom(checklist, index + 1)

_normalize_hold_checklist(checklist) == NormalizeFrom(checklist, 1)

\* No top-level rfq_number in the authoritative output: key_facts is used.
_extract_rfq_id(data) ==
    LET rfq == Get(data.key_facts, "rfq_number", "")
    IN  IF rfq = "" THEN "Unknown RFQ" ELSE rfq

_format_hold_summary(session) ==
    [ header |-> "HOLD checklist complete",
      rfq_id |-> session.rfq_id,
      lines  |-> [ index \in 1..Len(session.checklist) |->
                    LET item == session.checklist[index]
                        answer == Get(session.answers, item.id, "UNANSWERED")
                    IN  [ id |-> item.id,
                          question |-> item.question,
                          answer |-> answer,
                          blocks_bid |-> answer = "NO" /\ item.blocks_bid_if_no ] ] ]

\* user_sessions[message.author.id] = {...}; doc is the upload the session
\* was made for (the uuid4 of its file), kept to tell sessions apart.
NewSession(data, checklist, doc) ==
    [ rfq_id |-> _extract_rfq_id(data),
      checklist |-> checklist,
      current_index |-> 0,
      answers |-> EmptyDict,
      doc |-> doc ]

\* The key a session is stored under.
SessionKey(author, doc) == author

MessageKinds == {"bot", "no_attachment", "not_pdf", "pdf"}

on_message(author, kind, analysis) ==
    /\ program = "discord"
    /\ uploads < MaxUploads
    /\ IF kind # "pdf"
       THEN /\ last' = [ op |-> "on_message",
                         outcome |-> IF kind = "not_pdf" THEN "not_pdf" ELSE "ignored" ]
            /\ UNCHANGED <<uploads, user_sessions, views>>
       ELSE LET doc == uploads + 1 IN
            /\ uploads' = doc
            /\ IF ~analysis.ok
               THEN /\ last' = [op |-> "on_message", outcome |-> analysis.error]
                    /\ UNCHANGED <<user_sessions, views>>
               ELSE LET data == analysis.data
                        source == _derive_hold_resolution_checklist(data)
                        checklist == _normalize_hold_checklist(source)
                        decision == _derive_decision(data)
                    IN  IF decision = "HOLD" /\ checklist # << >>
                        THEN /\ user_sessions' =
                                  DictSet(user_sessions, SessionKey(author, doc),
                                          NewSession(data, checklist, doc))
                             /\ views' = views \cup {[user_id |-> author, doc |-> doc]}
                             /\ last' = [op |-> "on_message", outcome |-> "session"]
                        ELSE /\ last' = [op |-> "on_message", outcome |-> "no_session"]
                             /\ UNCHANGED <<user_sessions, views>>
    /\ UNCHANGED <<completed, timed_out>>
    /\ UNCHANGED <<program, args, telegramVars>>

\* Faulty variants of the three steps below; a property that tells the code
\* from its variant fails when the variant stands in for the step.
\* The owner check left out.
NotRequesterUnchecked(view, requester) == FALSE

\* A missing session made on the spot instead of being reported.
SessionExpiredCreates(sessions, view) ==
    [ sessions |-> DictSet(sessions, view.user_id,
                           [ rfq_id |-> "unknown", checklist |-> << >>,
                             current_index |-> 0, answers |-> EmptyDict,
                             doc |-> view.doc ]),
      outcome |-> "expired" ]

\* One answer advancing the index twice.
RecordAnswerSkips(session, answer) ==
    LET current_item == session.checklist[session.current_index + 1]
    IN  [ session EXCEPT !.answers = DictSet(@, current_item.id, answer),
                         !.current_index = @ + 2 ]

\* interaction.user.id != self.user_id
NotRequester(view, requester) == requester # view.user_id

\* "This checklist session has expired."
SessionExpired(sessions, view) ==
    [ sessions |-> sessions, outcome |-> "expired" ]

\* session["answers"][current_item["id"]] = answer; current_index + 1
RecordAnswer(session, answer) ==
    LET current_item == session.checklist[session.current_index + 1]
    IN  [ session EXCEPT !.answers = DictSet(@, current_item.id, answer),
                         !.current_index = @ + 1 ]

\* HoldResolutionView._handle_answer as a function of the registry: the
\* registry after the call and what the call replied.  Nothing is awaited
\* between reading the session and popping it.
HandleAnswer(sessions, view, requester, answer) ==
    IF NotRequester(view, requester)
    THEN [ sessions |-> sessions, outcome |-> "not_requester" ]
    ELSE IF view.user_id \notin DOMAIN sessions
    THEN SessionExpired(sessions, view)
    ELSE LET session == sessions[view.user_id]
         IN  IF session.current_index >= Len(session.checklist)
             THEN [ sessions |-> sessions, outcome |-> "already_completed" ]
             ELSE LET updated == RecordAnswer(session, answer)
                  IN  IF updated.current_index >= Len(updated.checklist)
                      THEN [ sessions |-> DictPop(sessions, view.user_id),
                             outcome  |-> "complete",
                             summary  |-> _format_hold_summary(updated) ]
                      ELSE [ sessions |-> DictSet(sessions, view.user_id, updated),
                             outcome  |-> "next" ]

_handle_answer(view, requester, answer) ==
    /\ program = "discord"
    /\ view \in views
    /\ LET r == HandleAnswer(user_sessions, view, requester, answer)
       IN  /\ user_sessions' = r.sessions
           /\ completed' = IF r.outcome = "complete"
                           THEN completed \cup {user_sessions[view.user_id].doc}
                           ELSE completed
           /\ last' = [ op |-> "_handle_answer", outcome |-> r.outcome,
                        summary |-> Get(r, "summary", EmptyDict) ]
    /\ UNCHANGED <<program, args, uploads, views, timed_out, telegramVars>>

\* The view's timeout (timeout=900) passes with no interaction: the library
\* stops the view and calls on_timeout, which HoldResolutionView does not
\* override.
on_timeout(view) ==
    /\ program = "discord"
    /\ view \in views
    /\ views' = views \ {view}
    /\ timed_out' = timed_out \cup {view}
    /\ last' = [op |-> "on_timeout", outcome |-> "stopped"]
    /\ UNCHANGED <<program, args, uploads, user_sessions, completed, telegramVars>>

(***************************************************************************)
(* gov/checklist/generator.py                                              *)
(***************************************************************************)
\* The keys of bid_risk_and_compliance_exposure, in DEFAULT_RISK_EXPOSURE's
\* order (the order _apply_schema_defaults inserts them in).
RiskOrder ==
    << "cybersecurity", "packaging", "FOB_FDT", "inspection", "domestic_sourcing",
       "hazmat", "schedule", "certifications", "other" >>

\* One "label: raw" string per field that states something.
_normalize_authoritative_risks(value) ==
    LET keys == SelectSeq(RiskOrder,
                    LAMBDA key : value[key] # {} /\ value[key] # NotStatedText)
    IN  [ i \in 1..Len(keys) |-> [label |-> keys[i], raw |-> value[keys[i]]] ]

\* The authoritative output has no "risks" key.
_extract_risks(analysis) ==
    IF "bid_risk_and_compliance_exposure" \in DOMAIN analysis
    THEN _normalize_authoritative_risks(analysis.bid_risk_and_compliance_exposure)
    ELSE << >>

COMPLIANCE_LABELS ==
    << <<"buy_american", "Buy American Act">>,
       <<"berry_amendment", "Berry Amendment">>,
       <<"domestic_sourcing", "Domestic sourcing">>,
       <<"additive_manufacturing_restriction", "Additive manufacturing restriction">>,
       <<"packaging", "Packaging">>,
       <<"cyber", "Cybersecurity (NIST/SPRS)">>,
       <<"hazardous", "Hazardous material handling">>,
       <<"fdt", "First Destination Transportation (FDT)">> >>

_extract_compliance_requirements(compliance_flags) ==
    LET hits == SelectSeq(COMPLIANCE_LABELS,
                    LAMBDA kv : Get(compliance_flags, kv[1], FALSE))
    IN  [ i \in 1..Len(hits) |-> hits[i][2] ]

_extract_summary(analysis) ==
    LET rfq_number == analysis.key_facts.rfq_number
    IN  IF rfq_number # "" /\ rfq_number # NotStated
        THEN <<"Checklist for RFQ", rfq_number>>
        ELSE <<"Checklist for solicitation review">>

\* Item ids are f"{id_prefix}-risk-{n}" and f"{id_prefix}-compliance-{n}".
_build_items(risks, requirements, id_prefix) ==
    [ i \in 1..Len(risks) |->
        [ id |-> <<id_prefix, "risk", i>>,
          question |-> <<"Is the team prepared to mitigate this risk", risks[i]>>,
          category |-> "risk" ] ]
    \o
    [ i \in 1..Len(requirements) |->
        [ id |-> <<id_prefix, "compliance", i>>,
          question |-> <<"Can we meet the requirement", requirements[i]>>,
          category |-> "compliance" ] ]

generate_checklist(analysis, id_prefix) ==
    LET risks == _extract_risks(analysis)
        compliance_flags == Get(analysis, "compliance_flags", EmptyDict)
        requirements == _extract_compliance_requirements(compliance_flags)
    IN  [ summary |-> _extract_summary(analysis),
          risks |-> risks,
          checklist |-> _build_items(risks, requirements, id_prefix) ]

(***************************************************************************)
(* telegram_bot.py                                                         *)
(***************************************************************************)
ItemIdsOf(session) == { session.checklist[i].id : i \in 1..Len(session.checklist) }

\* The dataclass has no field for who uploaded the document; uploader is
\* kept beside it to state who the session belongs to.
ChecklistSession(session_id, payload, uploader) ==
    [ solicitation_id |-> session_id,
      summary |-> payload.summary,
      risks |-> payload.risks,
      checklist |-> payload.checklist,
      responses |-> EmptyDict,
      uploader |-> uploader ]

\* The registry after _register_session(session).
_register_session(sessions, index, session) ==
    [ sessions |-> DictSet(sessions, session.solicitation_id, session.solicitation_id),
      index |-> [ x \in (DOMAIN index) \cup ItemIdsOf(session) |->
                    IF x \in ItemIdsOf(session) THEN session.solicitation_id
                    ELSE index[x] ] ]

\* The cleanup without its loop over the checklist: the session is popped
\* and its index entries stay.
CleanupKeepsIndex(sessions, index, objects, session_id) ==
    [ sessions |-> DictPop(sessions, session_id), index |-> index ]

\* The registry after _cleanup_session(session_id); objects holds the session
\* objects by id.
_cleanup_session(sessions, index, objects, session_id) ==
    IF session_id \notin DOMAIN sessions
    THEN [ sessions |-> sessions, index |-> index ]
    ELSE [ sessions |-> DictPop(sessions, session_id),
           index |-> [ x \in (DOMAIN index) \ ItemIdsOf(objects[sessions[session_id]])
                         |-> index[x] ] ]

\* Objects no dictionary and no suspended handler refers to are collected.
Collect(objects, sessions, calls) ==
    [ x \in { y \in DOMAIN objects :
                \/ y \in DOMAIN sessions
                \/ \E c \in BagToSet(calls) : c.session_id = y } |-> objects[x] ]

DocumentKinds == {"no_document", "not_pdf", "pdf"}

handle_document(uploader, kind, analysis) ==
    /\ program = "telegram"
    /\ uploads < MaxDocuments
    /\ IF kind # "pdf"
       THEN /\ last' = [ op |-> "handle_document",
                         outcome |-> IF kind = "not_pdf" THEN "not_pdf" ELSE "ignored" ]
            /\ UNCHANGED <<uploads, CHECKLIST_SESSIONS, CHECKLIST_INDEX, heap>>
       ELSE LET session_id == uploads + 1 IN
            /\ uploads' = session_id
            /\ IF ~analysis.ok
               THEN /\ last' = [op |-> "handle_document", outcome |-> analysis.error]
                    /\ UNCHANGED <<CHECKLIST_SESSIONS, CHECKLIST_INDEX, heap>>
               ELSE LET data == analysis.data
                        checklist_payload == generate_checklist(data, session_id)
                        session == ChecklistSession(session_id, checklist_payload, uploader)
                        registry == _register_session(CHECKLIST_SESSIONS,
                                                      CHECKLIST_INDEX, session)
                    IN  /\ CHECKLIST_SESSIONS' = registry.sessions
                        /\ CHECKLIST_INDEX' = registry.index
                        /\ heap' = DictSet(heap, session_id, session)
                        /\ last' = [op |-> "handle_document", outcome |-> "session"]
    /\ UNCHANGED <<program, args, discordVars, inflight, sent>>

\* query.data of a button is f"{item['id']}:yes" or f"{item['id']}:no".  The
\* ids are those a document's buttons can carry and one id no button was
\* ever made for; a payload of another shape has no colon or another answer.
ChecklistIds ==
    UNION { { item.id : item \in
                { generate_checklist(a, s).checklist[i] :
                    i \in 1..Len(generate_checklist(a, s).checklist) } } :
            a \in Analyses, s \in 1..MaxDocuments }
      \cup { <<0, "risk", 1>> }

CallbackData ==
    { [colon |-> TRUE, checklist_id |-> i, answer |-> a] :
          i \in ChecklistIds, a \in {"yes", "no"} }
        \cup { [colon |-> TRUE, checklist_id |-> <<0, "risk", 1>>, answer |-> "maybe"],
               [colon |-> FALSE] }

\* A handler suspended at an await, and one resumed.  Handlers at the same
\* await of the same session are told apart by their number only.
Suspend(calls, call) == calls (+) SetToBag({call})

Resume(calls, call) == calls (-) SetToBag({call})

\* session.responses[checklist_id] = answer
RecordResponse(session, checklist_id, answer) ==
    [ session EXCEPT !.responses = DictSet(@, checklist_id, answer) ]

\* handle_callback up to its first await after the session is found: the
\* payload is checked, the session looked up and the answer recorded.
handle_callback(requester, data) ==
    /\ program = "telegram"
    /\ IF ~data.colon \/ data.answer \notin {"yes", "no"}
       THEN /\ last' = [op |-> "handle_callback", outcome |-> "invalid"]
            /\ UNCHANGED <<heap, inflight>>
       ELSE IF \/ data.checklist_id \notin DOMAIN CHECKLIST_INDEX
               \/ CHECKLIST_INDEX[data.checklist_id] \notin DOMAIN CHECKLIST_SESSIONS
       THEN /\ last' = [op |-> "handle_callback", outcome |-> "expired_or_unknown"]
            /\ UNCHANGED <<heap, inflight>>
       ELSE LET session_id == CHECKLIST_INDEX[data.checklist_id]
                session == heap[CHECKLIST_SESSIONS[session_id]]
            IN  /\ BagCardinality(inflight) < MaxInflight
                /\ heap' = DictSet(heap, session_id,
                                   RecordResponse(session, data.checklist_id, data.answer))
                /\ inflight' = Suspend(inflight,
                                       [session_id |-> session_id, pc |-> "edit"])
                /\ last' = [op |-> "handle_callback", outcome |-> "recorded"]
    /\ UNCHANGED <<program, args, uploads, discordVars, CHECKLIST_SESSIONS,
                   CHECKLIST_INDEX, sent>>

\* handle_callback resumed after the two edits of the message: it returns
\* while answers are missing, and otherwise hands the consolidated response
\* to send_message.
callback_after_edit(call) ==
    /\ program = "telegram"
    /\ call \in BagToSet(inflight)
    /\ call.pc = "edit"
    /\ LET session == heap[call.session_id]
       IN  IF Cardinality(DOMAIN session.responses) < Len(session.checklist)
           THEN /\ inflight' = Resume(inflight, call)
                /\ heap' = Collect(heap, CHECKLIST_SESSIONS, inflight')
                /\ sent' = sent
                /\ last' = [op |-> "callback_after_edit", outcome |-> "waiting"]
           ELSE /\ inflight' = Suspend(Resume(inflight, call),
                                       [call EXCEPT !.pc = "send"])
                /\ sent' = [sent EXCEPT ![session.solicitation_id] = @ + 1]
                /\ heap' = heap
                /\ last' = [ op |-> "callback_after_edit", outcome |-> "consolidated",
                             checklist_responses |-> session.responses ]
    /\ UNCHANGED <<program, args, uploads, discordVars, CHECKLIST_SESSIONS, CHECKLIST_INDEX>>

\* handle_callback resumed after send_message: _cleanup_session(session_id).
callback_after_send(call) ==
    /\ program = "telegram"
    /\ call \in BagToSet(inflight)
    /\ call.pc = "send"
    /\ LET session_id == call.session_id
           registry == _cleanup_session(CHECKLIST_SESSIONS, CHECKLIST_INDEX,
                                        heap, session_id)
       IN  /\ CHECKLIST_SESSIONS' = registry.sessions
           /\ CHECKLIST_INDEX' = registry.index
           /\ inflight' = Resume(inflight, call)
           /\ heap' = Collect(heap, CHECKLIST_SESSIONS', inflight')
           /\ last' = [op |-> "callback_after_send", outcome |-> "cleaned"]
    /\ UNCHANGED <<program, args, uploads, discordVars, sent>>

(***************************************************************************)
(* The specification                                                       *)
(***************************************************************************)
Init ==
    /\ program \in {"discord", "telegram"}
    /\ args = EmptyDict
    /\ uploads = 0
    /\ user_sessions = EmptyDict
    /\ views = {}
    /\ completed = {}
    /\ timed_out = {}
    /\ CHECKLIST_SESSIONS = EmptyDict
    /\ CHECKLIST_INDEX = EmptyDict
    /\ heap = EmptyDict
    /\ inflight = EmptyBag
    /\ sent = [s \in 1..MaxDocuments |-> 0]
    /\ last = [op |-> "start", outcome |-> "none"]

DiscordNext ==
    \/ \E author \in Users, kind \in MessageKinds :
           \E analysis \in AnalysesFor(kind) : on_message(author, kind, analysis)
    \/ \E view \in views, requester \in Users, answer \in {"YES", "NO"} :
           _handle_answer(view, requester, answer)
    \/ \E view \in views : on_timeout(view)

TelegramNext ==
    \/ \E uploader \in Users, kind \in DocumentKinds :
           \E analysis \in AnalysesFor(kind) : handle_document(uploader, kind, analysis)
    \/ \E requester \in Users, data \in CallbackData :
           handle_callback(requester, data)
    \/ \E call \in BagToSet(inflight) : callback_after_edit(call)
    \/ \E call \in BagToSet(inflight) : callback_after_send(call)

Next == DiscordNext \/ TelegramNext

\* Either front end.
Spec == Init /\ [][Next]_vars

InitDiscord == Init /\ program = "discord"

InitTelegram == Init /\ program = "telegram"

\* The Discord bot alone.
SpecDiscord == InitDiscord /\ [][DiscordNext]_vars

\* The Telegram bot alone.
SpecTelegram == InitTelegram /\ [][TelegramNext]_vars

(***************************************************************************)
(* main.py --with-llm-advisor: gov/decision/decision_merge.py              *)
(***************************************************************************)
\* No front end is running: the registries are as constructed.
NoFrontEnd ==
    /\ uploads = 0
    /\ user_sessions = EmptyDict
    /\ views = {}
    /\ completed = {}
    /\ timed_out = {}
    /\ CHECKLIST_SESSIONS = EmptyDict
    /\ CHECKLIST_INDEX = EmptyDict
    /\ heap = EmptyDict
    /\ inflight = EmptyBag
    /\ sent = [s \in 1..MaxDocuments |-> 0]
    /\ last = [op |-> "start", outcome |-> "none"]

frontEndVars == <<uploads, discordVars, telegramVars>>

\* Python values are written as their literals; None is also what dict.get
\* gives for a missing key.
None == "None"

\* bool(value) for the literals the model draws.
Truthy(value) == value \notin {"None", "False", "0", "''"}

\* engine_result dicts: engine_result_from_analysis sets recommendation to
\* BID, HOLD or SKIP and compliance_blocker to False; other callers may pass
\* any value or leave a key out.
EngineResults ==
    { [k \in keys |-> IF k = "recommendation" THEN r ELSE b] :
        keys \in SUBSET {"recommendation", "compliance_blocker"},
        r \in {"BID", "HOLD", "SKIP"},
        b \in {"False", "True", "None", "0", "''", "'DFARS'"} }

\* llm_result dicts: whatever JSON object the advisor returned.
LlmResults ==
    { [k \in keys |-> IF k = "final_decision" THEN d ELSE t] :
        keys \in SUBSET {"final_decision", "reason"},
        d \in {"BID", "HOLD", "SKIP", "hold"},
        t \in {"Historical clustering exists", "Engine-determined outcome"} }

\* The SKIP-to-HOLD relaxation not restricted to an engine SKIP.
RelaxationAnyEngine(engine_recommendation, llm_result) ==
    Get(llm_result, "final_decision", None) \in {"HOLD", "BID"}

\* The blocker ignored when the engine says SKIP, as if the relaxation were
\* looked at first.
ComplianceBlockedUnlessSkip(engine_result) ==
    /\ Truthy(Get(engine_result, "compliance_blocker", None))
    /\ Get(engine_result, "recommendation", None) # "SKIP"

\* if engine_result.get("compliance_blocker")
ComplianceBlocked(engine_result) ==
    Truthy(Get(engine_result, "compliance_blocker", None))

\* engine_recommendation == "SKIP" and llm_result.get("final_decision") == "HOLD"
Relaxation(engine_recommendation, llm_result) ==
    /\ engine_recommendation = "SKIP"
    /\ Get(llm_result, "final_decision", None) = "HOLD"

merge_decision(engine_result, llm_result) ==
    IF ComplianceBlocked(engine_result)
    THEN [ final_decision |-> "SKIP", reason |-> "Compliance blocker detected" ]
    ELSE LET engine_recommendation == Get(engine_result, "recommendation", None)
         IN  IF Relaxation(engine_recommendation, llm_result)
             THEN llm_result
             ELSE [ final_decision |-> engine_recommendation,
                    reason |-> "Engine-determined outcome" ]

InitMerge ==
    /\ program = "merge_decision"
    /\ args \in [engine_result : EngineResults, llm_result : LlmResults]
    /\ NoFrontEnd

Call_merge_decision ==
    /\ program = "merge_decision"
    /\ last.op = "start"
    /\ last' = [ op |-> "merge_decision",
                  outcome |-> merge_decision(args.engine_result, args.llm_result) ]
    /\ UNCHANGED <<program, args, frontEndVars>>

\* merge_decision applied to one engine result and one advisory result.
SpecMerge == InitMerge /\ [][Call_merge_decision]_vars

(***************************************************************************)
(* main.py --with-llm-advisor: llm_advisor.py, build_context.py, main      *)
(***************************************************************************)
\* The recommendation labels compute_viability gives (without their emoji).
RecommendationLabels ==
    { "Bid - High Confidence", "Bid - Moderate Competition",
      "Bid With Caution", "Skip" }

\* label.lower(), as its words; the dash is left out.
Lower(label) ==
    CASE label = "Bid - High Confidence" -> <<"bid", "high", "confidence">>
      [] label = "Bid - Moderate Competition" -> <<"bid", "moderate", "competition">>
      [] label = "Bid With Caution" -> <<"bid", "with", "caution">>
      [] label = "Skip" -> <<"skip">>

\* token in simplified: no word of a label holds "skip" or "hold" as a part
\* of a longer word.
InLabel(token, simplified) == \E i \in DOMAIN simplified : simplified[i] = token

\* The normalisation with the cautious tier read as a HOLD.
NormalizeCautionAsHold(label) ==
    LET simplified == Lower(label)
    IN  IF InLabel("skip", simplified) THEN "SKIP"
        ELSE IF InLabel("caution", simplified) THEN "HOLD"
        ELSE "BID"

\* "skip" in label.lower() -> SKIP, "hold" in label.lower() -> HOLD, else BID.
_normalize_recommendation(label) ==
    LET simplified == Lower(label)
    IN  IF InLabel("skip", simplified) THEN "SKIP"
        ELSE IF InLabel("hold", simplified) THEN "HOLD"
        ELSE "BID"

engine_result_from_analysis(result) ==
    [ recommendation |-> _normalize_recommendation(result.win_probability.recommendation),
      compliance_blocker |-> "False" ]

\* What the chat completion carries in message.content: nothing, text that
\* is not JSON, or a JSON object.
AdvisorContents ==
    { [kind |-> "empty"], [kind |-> "text"] }
        \cup { [kind |-> "json", value |-> v] : v \in LlmResults }

\* run_llm_advisor: the value returned, or the exception raised.
run_llm_advisor(api_key, content) ==
    IF api_key = ""
    THEN [ raised |-> TRUE,
           error |-> "RuntimeError: OPENAI_API_KEY is required to run the LLM advisor." ]
    ELSE IF content.kind = "empty"
    THEN [ raised |-> TRUE,
           error |-> "RuntimeError: LLM advisor returned an empty response." ]
    ELSE IF content.kind # "json"
    THEN [ raised |-> TRUE, error |-> "json.JSONDecodeError" ]
    ELSE [ raised |-> FALSE, value |-> content.value ]

\* main after the arguments are parsed and the text analysed: what it prints
\* and how the process ends.  An exception of run_llm_advisor is not caught.
main(a) ==
    LET result == a.result
        format == IF a.as_json THEN "json" ELSE "text"
    IN  IF a.with_llm_advisor
        THEN LET engine_result == engine_result_from_analysis(result)
                 advisor == run_llm_advisor(a.api_key, a.content)
             IN  IF advisor.raised
                 THEN [ exit |-> advisor.error, stdout |-> EmptyDict ]
                 ELSE [ exit |-> "0",
                        stdout |->
                          [ format |-> format,
                            result |-> result,
                            llm_advisor |->
                              [ llm_output |-> advisor.value,
                                final_decision |->
                                  merge_decision(engine_result, advisor.value) ] ] ]
        ELSE [ exit |-> "0", stdout |-> [format |-> format, result |-> result] ]

MainArgs ==
    [ with_llm_advisor : BOOLEAN,
      as_json : BOOLEAN,
      api_key : {"", "sk-key"},
      content : AdvisorContents,
      result : [win_probability : [recommendation : RecommendationLabels]] ]

InitMain ==
    /\ program = "main"
    /\ args \in MainArgs
    /\ NoFrontEnd

Call_main ==
    /\ program = "main"
    /\ last.op = "start"
    /\ last' = [op |-> "main", outcome |-> main(args)]
    /\ UNCHANGED <<program, args, frontEndVars>>

\* One run of main.py on a text that was read and analysed.
SpecMain == InitMain /\ [][Call_main]_vars

(***************************************************************************)
(* main.py: compute_viability, build_risks                                 *)
(***************************************************************************)
\* The fields of ComplianceFlags.
ComplianceFlags ==
    { "buy_american", "berry_amendment", "domestic_sourcing",
      "additive_manufacturing_restriction", "packaging", "cyber", "hazardous",
      "fdt" }

Digits == <<"0", "1", "2", "3", "4", "5", "6", "7", "8", "9">>

IsDigit(c) == \E d \in 1..Len(Digits) : Digits[d] = c

DigitValue(c) == (CHOOSE d \in 1..Len(Digits) : Digits[d] = c) - 1

\* A text is a sequence of pieces: single characters where the characters
\* matter, whole phrases elsewhere.
\* str.replace(",", "")
RemoveCommas(text) == SelectSeq(text, LAMBDA c : c # ",")

RECURSIVE DecimalValue(_)
DecimalValue(digits) ==
    IF digits = << >> THEN 0
    ELSE 10 * DecimalValue(SubSeq(digits, 1, Len(digits) - 1))
           + DigitValue(digits[Len(digits)])

\* int(text): the value, or ValueError for anything but a run of digits.
ParseInt(text) ==
    IF text # << >> /\ \A i \in 1..Len(text) : IsDigit(text[i])
    THEN [ok |-> TRUE, value |-> DecimalValue(text)]
    ELSE [ok |-> FALSE, value |-> 0]

Max(a, b) == IF a >= b THEN a ELSE b

Min(a, b) == IF a <= b THEN a ELSE b

RECURSIVE MaxOf(_)
MaxOf(prices) ==
    IF Len(prices) = 1 THEN prices[1]
    ELSE Max(prices[1], MaxOf(Tail(prices)))

RECURSIVE MinOf(_)
MinOf(prices) ==
    IF Len(prices) = 1 THEN prices[1]
    ELSE Min(prices[1], MinOf(Tail(prices)))

\* One adjustment of the score with the sentence that explains it.
Adjust(points, sentence) == <<[points |-> points, sentence |-> sentence]>>

\* None where a list of prices is expected: a list no price can be in, for
\* TLC compares values of one kind only.
NoneList == <<-1>>

\* None where a text is expected.
NoneText == <<"None">>

\* The default of PriceIntelligence.recommended_bid_price.
NotEnoughData == <<"Not enough data">>

\* f"${cents / 100:,.2f}": the dollar sign, the dollars, the cents.
Dollars(cents) == <<"$", cents \div 100, cents % 100>>

\* A faulty variant: None counts as a list of prices.
HasPricesOrNone(history_prices) == history_prices # << >>

\* if price.history_prices: neither None nor an empty list.
HasPrices(history_prices) == history_prices \notin {NoneList, << >>}

\* The price-history block; prices are in cents, so spread / max < 0.2 is 5 * spread < max, and
\* spread / max > 0.45 is 20 * spread > 9 * max.
PriceAdjustments(price) ==
    IF HasPrices(price.history_prices)
    THEN LET highest == MaxOf(price.history_prices)
             spread == highest - MinOf(price.history_prices)
         IN  (IF highest > 0 /\ 5 * spread < highest
              THEN Adjust(6, "Stable historical pricing window.")
              ELSE IF highest > 0 /\ 20 * spread > 9 * highest
              THEN Adjust(-3, "Pricing shows high volatility.")
              ELSE << >>)
             \o Adjust(4, "Price history available for targeting.")
    ELSE Adjust(0, "No price history found; more market research needed.")

\* The quantity block.
QuantityAdjustments(snapshot) ==
    LET qty == ParseInt(RemoveCommas(snapshot.quantity))
    IN  IF ~qty.ok
        THEN Adjust(-6, "Quantity not explicit; probability reduced until parsed.")
        ELSE IF qty.value <= 50
        THEN Adjust(4, "Manageable quantity supports quick delivery.")
        ELSE IF qty.value >= 500
        THEN Adjust(-5, "High quantity may stress supply chain.")
        ELSE Adjust(3, "Known production lot size aligns with historical buys.")

\* The compliance block.
ComplianceAdjustments(compliance) ==
    (IF compliance.cyber
     THEN Adjust(-7, "Cyber clauses present; ensure SPRS/NIST readiness.")
     ELSE << >>)
    \o (IF compliance.buy_american \/ compliance.berry_amendment
        THEN Adjust(-5, "Domestic sourcing requirements apply.")
        ELSE << >>)
    \o (IF compliance.packaging
        THEN Adjust(-3, "Specific packaging standards called out.")
        ELSE << >>)
    \o (IF compliance.fdt
        THEN Adjust(-2, "FDT applies; include transportation in price.")
        ELSE << >>)

\* The award block with the points of the stable-pricing block.
AwardAdjustmentsOfSix(snapshot) ==
    IF snapshot.automated_award = "Eligible"
    THEN Adjust(6, "Eligible for automated award/fast pay.")
    ELSE << >>

AwardAdjustments(snapshot) ==
    IF snapshot.automated_award = "Eligible"
    THEN Adjust(4, "Eligible for automated award/fast pay.")
    ELSE << >>

Adjustments(snapshot, price, compliance) ==
    PriceAdjustments(price) \o QuantityAdjustments(snapshot)
        \o ComplianceAdjustments(compliance) \o AwardAdjustments(snapshot)

RECURSIVE SumPoints(_)
SumPoints(adjustments) ==
    IF adjustments = << >> THEN 0
    ELSE adjustments[1].points + SumPoints(Tail(adjustments))

\* The score before it is clamped.
UnclampedScore(snapshot, price, compliance) ==
    60 + SumPoints(Adjustments(snapshot, price, compliance))

\* The score kept on a scale of a thousand.
ClampPerMille(score) == Max(0, Min(1000, 10 * score))

\* score = max(0, min(100, score))
Clamp(score) == Max(0, Min(100, score))

Recommendation(score) ==
    IF score >= 80 THEN "Bid - High Confidence"
    ELSE IF score >= 65 THEN "Bid - Moderate Competition"
    ELSE IF score >= 50 THEN "Bid With Caution"
    ELSE "Skip"

compute_viability(snapshot, price, compliance) ==
    LET adjustments == Adjustments(snapshot, price, compliance)
        score == Clamp(UnclampedScore(snapshot, price, compliance))
    IN  [ score |-> score,
          rationale |-> [i \in 1..Len(adjustments) |-> adjustments[i].sentence],
          recommendation |-> Recommendation(score),
          target_price_range |->
            IF price.recommended_bid_price = NotEnoughData
                 /\ HasPrices(price.history_prices)
            THEN Dollars(price.history_prices[Len(price.history_prices)])
                   \o <<" (match last known award)">>
            ELSE price.recommended_bid_price ]

\* risks.append(...) for the flags build_risks looks at, in its order.
RiskSentences ==
    << <<"buy_american", "Buy American Act applies; foreign sourcing restricted.">>,
       <<"berry_amendment",
         "Berry Amendment triggers U.S. specialty metal/textile sourcing.">>,
       <<"additive_manufacturing_restriction",
         "Additive manufacturing prohibited or restricted.">>,
       <<"packaging", "Packaging must follow MIL-STD-129 / ASTM D3951 / RP001.">>,
       <<"cyber", "Cyber clauses (NIST SP 800-171 / SPRS) included.">>,
       <<"hazardous", "Hazardous material handling/SDS required.">>,
       <<"fdt", "First Destination Transportation impacts freight planning.">> >>

DEFAULT_NON_RISK == "No special risks detected beyond standard FAR/DFARS terms."

\* if not risks: risks.append(...)
Fallback(risks) == IF risks = << >> THEN <<DEFAULT_NON_RISK>> ELSE risks

build_risks(compliance) ==
    LET hits == SelectSeq(RiskSentences, LAMBDA entry : compliance[entry[1]])
    IN  Fallback([i \in 1..Len(hits) |-> hits[i][2]])

\* Quantity texts: what parse_snapshot can capture ([0-9,]+), and the default.
Quantities ==
    { <<"2", "5">>, <<"5", "0">>, <<"5", "1">>, <<"4", "9", "9">>,
      <<"5", "0", "0">>, <<"1", ",", "2", "0", "0">>, <<",">>,
      <<"Not stated in RFQ">> }

PriceHistories ==
    { NoneList, << >>, <<100>>, <<100, 90>>, <<100, 80>>, <<70, 100>>, <<100, 55>>,
      <<50, 100>>, <<0, 0>> }

ViabilityArgs ==
    [ snapshot : [ quantity : Quantities,
                   automated_award : {"Eligible", NotStated} ],
      price : [ history_prices : PriceHistories,
                recommended_bid_price : {NotEnoughData} ],
      compliance : [ComplianceFlags -> BOOLEAN] ]

InitViability ==
    /\ program = "compute_viability"
    /\ args \in ViabilityArgs
    /\ NoFrontEnd

\* analyze_text from compute_viability on: win and risks.
Call_compute_viability ==
    /\ program = "compute_viability"
    /\ last.op = "start"
    /\ last' = [ op |-> "compute_viability",
                  outcome |-> compute_viability(args.snapshot, args.price,
                                                args.compliance),
                  risks |-> build_risks(args.compliance) ]
    /\ UNCHANGED <<program, args, frontEndVars>>

\* compute_viability and build_risks applied to one parsed document.
SpecViability == InitViability /\ [][Call_compute_viability]_vars

(***************************************************************************)
(* main.py: parse_snapshot, parse_compliance_flags, analyze_text           *)
(***************************************************************************)
\* A document is a sequence of lines and a line a sequence of words.  The
\* lines a document is made of:
Lines ==
    { <<"RFQ", "SPE4A6-24-Q-1234">>,
      <<"1.", "REQUEST", "NO.", "SPE4A6-24-Q-1234">>,
      <<"QTY", "25">>,
      <<"QTY", "600", "EA">>,
      <<"CLIN", "0001", "QTY", "1,200">>,
      <<"NIST", "SP", "800-171">>,
      <<"MIL-STD-129">>,
      <<"FDT">>,
      <<"fast", "pay">>,
      <<"Buy", "American">>,
      <<"domestic", "source">>,
      <<"MSDS">> }

MaxLines == 4   \* lines of a document

RECURSIVE Flatten(_)
Flatten(text) ==
    IF text = << >> THEN << >> ELSE Head(text) \o Flatten(Tail(text))

\* The run of [A-Z0-9-] characters a word starts with.
IdRun(word) ==
    CASE word = "1." -> "1"
      [] word = "NO." -> "NO"
      [] word = "1,200" -> "1"
      [] OTHER -> word

\* The words whose run of [A-Z0-9-] has five characters or more.
LongIds ==
    { "SPE4A6-24-Q-1234", "REQUEST", "800-171", "MIL-STD-129", "American",
      "domestic", "source" }

\* The words of the shape SPE\w+-\d{2}-[A-Z]-\d{4,}.
SpeNumbers == { "SPE4A6-24-Q-1234" }

\* The run of [0-9,] characters a word starts with, character by character.
QtyRun(word) ==
    CASE word = "25" -> <<"2", "5">>
      [] word = "600" -> <<"6", "0", "0">>
      [] word = "10" -> <<"1", "0">>
      [] word = "0001" -> <<"0", "0", "0", "1">>
      [] word = "1,200" -> <<"1", ",", "2", "0", "0">>
      [] word = "800-171" -> <<"8", "0", "0">>
      [] word = "1." -> <<"1">>
      [] OTHER -> << >>

\* The least index the test holds at, 0 when there is none: re.search finds
\* the leftmost match.
First(words, Test(_)) ==
    IF \E i \in 1..Len(words) : Test(i)
    THEN CHOOSE i \in 1..Len(words) : Test(i) /\ \A j \in 1..(i - 1) : ~Test(j)
    ELSE 0

\* A faulty variant: the generic RFQ label counts as the request number box.
_extract_request_numberAnyLabel(text) ==
    LET words == Flatten(text)
        At(i) == /\ i + 1 <= Len(words)
                 /\ words[i] \in {"RFQ", "NO.", "NO"}
        i == First(words, At)
    IN  IF i = 0 THEN "" ELSE IdRun(words[i + 1])

\* 1\.?\s*REQUEST\s+NO\.?[:#\s]*([A-Z0-9-]+); None is "".
_extract_request_number(text) ==
    LET words == Flatten(text)
        At(i) == /\ i + 3 <= Len(words)
                 /\ words[i] \in {"1.", "1"}
                 /\ words[i + 1] = "REQUEST"
                 /\ words[i + 2] \in {"NO.", "NO"}
        i == First(words, At)
    IN  IF i = 0 THEN "" ELSE IdRun(words[i + 3])

\* (?:Solicitation|RFQ|Request for Quotation)[:#\s]+([A-Z0-9-]{5,}), then
\* \b(SPE\w+-\d{2}-[A-Z]-\d{4,})\b.
RfqNumberFallback(text) ==
    LET words == Flatten(text)
        Labelled(i) == /\ i + 1 <= Len(words)
                       /\ words[i] \in {"RFQ", "Solicitation"}
                       /\ words[i + 1] \in LongIds
        Shaped(i) == words[i] \in SpeNumbers
        i == First(words, Labelled)
        j == First(words, Shaped)
    IN  IF i # 0 THEN IdRun(words[i + 1])
        ELSE IF j # 0 THEN words[j]
        ELSE ""

\* CLIN\s+0*0*1[\s\S]{0,350}?(?:QTY|QUANTITY)[:\s]+([0-9,]+), then
\* \bQUANTITY[:\s]+([0-9,]+)\b; a document of MaxLines lines is shorter than
\* the 350 characters and the ten lines the two searches look ahead, so
\* _scan_line_window finds nothing the first pattern does not.
_parse_clin_quantity(text) ==
    LET words == Flatten(text)
        Counted(j) == /\ j + 1 <= Len(words)
                      /\ words[j] \in {"QTY", "QUANTITY"}
                      /\ QtyRun(words[j + 1]) # << >>
        Clin(i) == /\ i + 1 <= Len(words)
                   /\ words[i] = "CLIN"
                   /\ words[i + 1] \in {"1", "01", "001", "0001"}
                   /\ \E j \in (i + 2)..Len(words) : Counted(j)
        Quantity(j) == /\ j + 1 <= Len(words)
                       /\ words[j] = "QUANTITY"
                       /\ QtyRun(words[j + 1]) # << >>
        i == First(words, Clin)
        After(j) == j >= i + 2 /\ Counted(j)
        k == First(words, Quantity)
    IN  IF i # 0 THEN QtyRun(words[First(words, After) + 1])
        ELSE IF k # 0 THEN QtyRun(words[k + 1])
        ELSE << >>

\* (?:Quantity|QTY)[:#\s]+([0-9,]+)\b, then
\* \bQTY\s+([0-9,]+)\s+(?:EA|Each|PG|KT|BX)\b (which matches nothing the
\* first does not).
QuantityFallback(text) ==
    LET words == Flatten(text)
        Counted(j) == /\ j + 1 <= Len(words)
                      /\ words[j] \in {"QTY", "QUANTITY", "Quantity"}
                      /\ QtyRun(words[j + 1]) # << >>
        j == First(words, Counted)
    IN  IF j # 0 THEN QtyRun(words[j + 1]) ELSE << >>

\* The line has the phrase in it, word for word.
HasPhrase(line, phrase) ==
    \E i \in 0..(Len(line) - Len(phrase)) :
        \A k \in 1..Len(phrase) : line[i + k] = phrase[k]

\* re.search(pattern, text): one of the phrases is in one of the lines.
Mentions(text, phrases) ==
    \E n \in 1..Len(text), phrase \in phrases : HasPhrase(text[n], phrase)

parse_snapshot(text) ==
    LET extracted_request_no == _extract_request_number(text)
        fallback == RfqNumberFallback(text)
        rfq_number == IF extracted_request_no # "" THEN extracted_request_no
                      ELSE IF fallback # "" THEN fallback
                      ELSE NotStated
        clin == _parse_clin_quantity(text)
        other == QuantityFallback(text)
    IN  [ rfq_number |-> rfq_number,
          rfq_id |-> IF rfq_number # NotStated THEN rfq_number ELSE "RFQ-UNKNOWN",
          rfq_id_confidence |->
            IF extracted_request_no # "" THEN "extracted"
            ELSE IF rfq_number # NotStated THEN "inferred"
            ELSE "missing",
          quantity |-> IF clin # << >> THEN clin
                       ELSE IF other # << >> THEN other
                       ELSE <<NotStated>>,
          automated_award |->
            IF Mentions(text, {<<"automated", "award">>, <<"auto-award">>,
                               <<"auto", "award">>, <<"fast", "pay">>})
            THEN "Eligible" ELSE NotStated ]

\* The DFARS clause numbers the patterns also look for are in none of Lines.
parse_compliance_flags(text) ==
    [ buy_american |-> Mentions(text, {<<"Buy", "American">>}),
      berry_amendment |-> Mentions(text, {<<"Berry", "Amendment">>}),
      domestic_sourcing |->
        Mentions(text, {<<"domestic", "content">>, <<"domestic", "source">>,
                        <<"US-made">>}),
      additive_manufacturing_restriction |->
        Mentions(text, {<<"Additive", "Manufacturing">>, <<"3D", "printing">>}),
      packaging |-> Mentions(text, {<<"MIL-STD-129">>, <<"ASTM", "D3951">>, <<"RP001">>}),
      cyber |-> Mentions(text, {<<"NIST", "SP", "800-171">>, <<"SPRS">>}),
      hazardous |-> Mentions(text, {<<"hazardous">>, <<"MSDS">>, <<"SDS">>}),
      fdt |-> Mentions(text, {<<"First", "Destination", "Transportation">>,
                              <<"FDT">>}) ]

(***************************************************************************)
(* main.py: parse_price_history.  Prices are in cents.                     *)
(***************************************************************************)
\* The lines of a document that speak of prices.
PriceLines ==
    { <<"PROCUREMENT", "HISTORY">>,
      <<"10", "EA", "$45.00">>,
      <<"12", "EA", "$47.50">>,
      <<"8", "EA", "$44.00">>,
      <<"500", "EA", "$60.00">>,
      <<"Unit", "price", "$45.00">>,
      <<"Total", "$1,250.00">>,
      <<"5", "EA", "$900">>,
      <<"2", "EA", "$900">>,
      <<"3", "EA", "$250.00">>,
      <<"QTY", "10">> }

\* The lines _extract_procurement_history takes an entry from.
HistoryLines ==
    { <<"10", "EA", "$45.00">>, <<"12", "EA", "$47.50">>,
      <<"8", "EA", "$44.00">>, <<"500", "EA", "$60.00">> }

MaxPriceLines == 3   \* lines of a document that speaks of prices
MaxHistory == 6      \* lines of a procurement history

\* int(word) of a word of one to four digits (\d{1,4}), -1 for another word.
NumberValue(word) ==
    CASE word = "10" -> 10
      [] word = "12" -> 12
      [] word = "8" -> 8
      [] word = "500" -> 500
      [] word = "5" -> 5
      [] word = "2" -> 2
      [] word = "3" -> 3
      [] word = "25" -> 25
      [] word = "600" -> 600
      [] word = "0001" -> 1
      [] OTHER -> -1

\* The words [A-Z]* matches whole, case ignored.
Letters ==
    { "EA", "Unit", "price", "Total", "QTY", "PROCUREMENT", "HISTORY", "RFQ",
      "REQUEST", "CLIN", "NIST", "SP", "FDT", "fast", "pay", "Buy", "American",
      "domestic", "source", "MSDS" }

\* \$?(?P<price>\d{1,3}\.\d{2}) on a word, in cents; -1 when it does not match.
StructuredPrice(word) ==
    CASE word = "$45.00" -> 4500
      [] word = "$47.50" -> 4750
      [] word = "$44.00" -> 4400
      [] word = "$60.00" -> 6000
      [] word = "$250.00" -> 25000
      [] OTHER -> -1

\* \$\s*(?P<amount>[0-9]{1,3}(?:\.\d{2})?) on a word, in cents: of $1,250.00 it
\* takes the 1, of $900 the 900.
FallbackAmount(word) ==
    CASE word = "$1,250.00" -> 100
      [] word = "$900" -> 90000
      [] OTHER -> StructuredPrice(word)

\* \$\s*([0-9]{1,3}(?:,[0-9]{3})*\.\d{2}) on a word, in cents.
CurrencyOnly(word) ==
    CASE word = "$1,250.00" -> 125000
      [] OTHER -> StructuredPrice(word)

\* The digits a line ends with, which \d{1,4}\s* carries over the line break
\* as the quantity of the next line's amount: of an amount not yet taken the
\* last run of digits, of $1,250.00 the 00 in either case; -1 for none.
TrailingRun(word, taken) ==
    CASE word = "$1,250.00" -> 0
      [] word = "$900" -> IF taken THEN -1 ELSE 900
      [] FallbackAmount(word) >= 0 -> IF taken THEN -1 ELSE 0
      [] word = "1,200" -> 200
      [] OTHER -> NumberValue(word)

\* text_block[start : start + 3000] from "procurement history" on.
Scoped(text) ==
    LET Header(n) == HasPhrase(text[n], <<"PROCUREMENT", "HISTORY">>)
        start == First(text, Header)
    IN  IF start = 0 THEN text ELSE SubSeq(text, start, Len(text))

\* The (qty, price) entries of one line, from word i on:
\* (?P<qty>\d{1,4})\s+[A-Z]*\s*\$?(?P<price>\d{1,3}\.\d{2}), price <= 200.
RECURSIVE LineEntries(_, _)
LineEntries(line, i) ==
    IF i > Len(line) THEN << >>
    ELSE LET j == IF i + 1 <= Len(line) /\ line[i + 1] \in Letters
                  THEN i + 2 ELSE i + 1
         IN  IF /\ NumberValue(line[i]) >= 0
                /\ j <= Len(line)
                /\ StructuredPrice(line[j]) >= 0
             THEN (IF StructuredPrice(line[j]) <= 20000
                   THEN << <<NumberValue(line[i]), StructuredPrice(line[j])>> >>
                   ELSE << >>)
                  \o LineEntries(line, j + 1)
             ELSE LineEntries(line, i + 1)

RECURSIVE EntriesOf(_)
EntriesOf(lines) ==
    IF lines = << >> THEN << >>
    ELSE LineEntries(Head(lines), 1) \o EntriesOf(Tail(lines))

_extract_procurement_history(text) == EntriesOf(Scoped(text))

\* The first word from word i on that carries an amount, 0 for none.
FirstAmount(line, i) ==
    LET Amount(k) == k >= i /\ FallbackAmount(line[k]) >= 0
    IN  First(line, Amount)

\* The matches (qty, index of the amount) of the second pattern in one line,
\* from word i on:
\* (?P<qty>\d{1,4})\s*(?:EA|Each|PG|KT|BX)?[^\n]{0,25}?\$\s*(?P<amount>...);
\* no line has more than 25 characters before its amount.
RECURSIVE ScanLine(_, _)
ScanLine(line, i) ==
    IF i > Len(line) THEN << >>
    ELSE LET k == FirstAmount(line, i + 1)
         IN  IF NumberValue(line[i]) >= 0 /\ k # 0
             THEN << <<NumberValue(line[i]), k>> >> \o ScanLine(line, k + 1)
             ELSE ScanLine(line, i + 1)

\* The matches in one line when the line before ended in the digits carry.
LineMatches(line, carry) ==
    LET k == FirstAmount(line, 1)
    IN  IF carry >= 0 /\ k # 0
        THEN << <<carry, k>> >> \o ScanLine(line, k + 1)
        ELSE ScanLine(line, 1)

\* re.finditer over the text: the (qty, amount) pairs from line n on.
RECURSIVE AmountMatches(_, _, _)
AmountMatches(text, n, carry) ==
    IF n > Len(text) THEN << >>
    ELSE LET line == text[n]
             matches == LineMatches(line, carry)
             taken == /\ matches # << >>
                      /\ matches[Len(matches)][2] = Len(line)
         IN  [ i \in 1..Len(matches) |->
                 <<matches[i][1], FallbackAmount(line[matches[i][2]])>> ]
             \o AmountMatches(text, n + 1, TrailingRun(line[Len(line)], taken))

\* round(n / d, 2) in cents, to the nearest; a tie goes up when up.
RoundNearest(n, d, up) ==
    LET q == n \div d
        r == n % d
    IN  IF 2 * r > d \/ (2 * r = d /\ up) THEN q + 1 ELSE q

\* What one match adds to raw_prices and to unit_price_candidates.
RawOf(match) == IF match[2] <= 20000 THEN <<match[2]>> ELSE << >>

UnitOf(match) ==
    LET unit_estimate == RoundNearest(match[2], Max(match[1], 1), FALSE)
    IN  IF match[2] <= 20000 THEN <<match[2]>>
        ELSE IF unit_estimate <= 20000 THEN <<unit_estimate>>
        ELSE << >>

\* The values of Op on the elements of seq, one after the other.
FlatMap(Op(_), seq) == Flatten([ i \in 1..Len(seq) |-> Op(seq[i]) ])

\* currency_only_matches, those of 200 dollars or less.
CurrencyOnlyPrices(text) ==
    LET Price(word) == IF CurrencyOnly(word) >= 0 /\ CurrencyOnly(word) <= 20000
                       THEN <<CurrencyOnly(word)>> ELSE << >>
    IN  FlatMap(Price, Flatten(text))

\* deduped_units: the first occurrence of each price.
RECURSIVE Dedupe(_)
Dedupe(prices) ==
    IF prices = << >> THEN << >>
    ELSE LET front == SubSeq(prices, 1, Len(prices) - 1)
             price == prices[Len(prices)]
         IN  IF \E i \in 1..Len(front) : front[i] = price
             THEN Dedupe(front)
             ELSE Append(Dedupe(front), price)

\* A faulty variant: no price found is an empty list.
UnstructuredHistoryOrEmpty(text) ==
    LET matches == AmountMatches(text, 1, -1)
    IN  Dedupe(FlatMap(UnitOf, matches) \o CurrencyOnlyPrices(text))

\* history when structured_history is empty:
\* deduped_units or (raw_prices if raw_prices else None).
UnstructuredHistory(text) ==
    LET matches == AmountMatches(text, 1, -1)
        raw_prices == FlatMap(RawOf, matches) \o CurrencyOnlyPrices(text)
        deduped_units == Dedupe(FlatMap(UnitOf, matches) \o CurrencyOnlyPrices(text))
    IN  IF deduped_units # << >> THEN deduped_units
        ELSE IF raw_prices # << >> THEN raw_prices
        ELSE NoneList

Abs(n) == IF n < 0 THEN 0 - n ELSE n

\* (key, value) pairs in the order of their keys: stable, by insertion.
RECURSIVE SortedPairs(_)
SortedPairs(pairs) ==
    IF pairs = << >> THEN << >>
    ELSE LET front == SortedPairs(SubSeq(pairs, 1, Len(pairs) - 1))
             pair == pairs[Len(pairs)]
             k == Cardinality({ i \in 1..Len(front) : front[i][1] <= pair[1] })
         IN  SubSeq(front, 1, k) \o <<pair>> \o SubSeq(front, k + 1, Len(front))

\* sorted(values, key=Key)
Sorted(values, Key(_)) ==
    LET pairs == SortedPairs([ i \in 1..Len(values) |-> <<Key(values[i]), values[i]>> ])
    IN  [ i \in 1..Len(pairs) |-> pairs[i][2] ]

\* Twice the median, to stay in whole cents.
_median(values) ==
    LET Same(v) == v
        sorted_vals == Sorted(values, Same)
        mid == Len(sorted_vals) \div 2
    IN  IF Len(sorted_vals) % 2 = 1 THEN 2 * sorted_vals[mid + 1]
        ELSE sorted_vals[mid] + sorted_vals[mid + 1]

\* A faulty variant: the three closest entries at most.
FocusOfThree(history_quantities, current_qty) ==
    LET Proximity(qp) == Abs(qp[1] - current_qty)
        sorted_by_proximity == Sorted(history_quantities, Proximity)
        focus == SubSeq(sorted_by_proximity, 1, Min(3, Len(sorted_by_proximity)))
    IN  [ i \in 1..Len(focus) |-> focus[i][2] ]

\* A faulty variant: the two closest entries at most.
FocusOfTwo(history_quantities, current_qty) ==
    LET Proximity(qp) == Abs(qp[1] - current_qty)
        sorted_by_proximity == Sorted(history_quantities, Proximity)
        focus == SubSeq(sorted_by_proximity, 1, Min(2, Len(sorted_by_proximity)))
    IN  [ i \in 1..Len(focus) |-> focus[i][2] ]

\* sorted_by_proximity[: max(3, min(5, len(sorted_by_proximity)))], prices only.
Focus(history_quantities, current_qty) ==
    LET Proximity(qp) == Abs(qp[1] - current_qty)
        sorted_by_proximity == Sorted(history_quantities, Proximity)
        n == Min(Len(sorted_by_proximity),
                 Max(3, Min(5, Len(sorted_by_proximity))))
        focus == SubSeq(sorted_by_proximity, 1, n)
    IN  [ i \in 1..Len(focus) |-> focus[i][2] ]

\* The medians (doubled) whose product with 0.965 lies, in binary floating
\* point, above the half cent that it is in exact arithmetic: round() takes
\* it up.  Every other tie of the lines above goes down.
LowTiesRoundedUp == {4600, 27000}

\* round(target * (1 - band), 2) and round(target * (1 + band), 2) for
\* band = 0.035, of a doubled target in cents.
BandLow(target) == RoundNearest(193 * target, 400, target \in LowTiesRoundedUp)

BandHigh(target) == RoundNearest(207 * target, 400, FALSE)

\* recommended_bid_price: f"${low:,.2f} - ${high:,.2f}" and the suffix
\* " (trimmed for historical alignment)" when high > median_full * 1.25.
Band(target, history) ==
    Dollars(BandLow(target)) \o <<" - ">> \o Dollars(BandHigh(target))
      \o (IF 8 * BandHigh(target) > 5 * _median(history)
          THEN <<" (trimmed for historical alignment)">> ELSE << >>)

\* rfq_quantity is None or a text; current_qty is None or an int.
CurrentQty(rfq_quantity) ==
    IF rfq_quantity = NoneText \/ rfq_quantity = << >>
    THEN [ok |-> FALSE, value |-> 0]
    ELSE ParseInt(RemoveCommas(rfq_quantity))

\* history: the prices of the structured entries, or what the fallback finds.
HistoryOf(structured_history, text) ==
    IF structured_history = << >>
    THEN UnstructuredHistory(text)
    ELSE [ i \in 1..Len(structured_history) |-> structured_history[i][2] ]

\* focus_prices: the entries closest in quantity when both are known.
FocusPrices(structured_history, current_qty, history) ==
    IF structured_history # << >> /\ current_qty.ok
    THEN Focus(structured_history, current_qty.value)
    ELSE history

\* The PriceIntelligence returned.
PriceIntelligence(history, focus_prices) ==
    IF HasPrices(history)
    THEN [ historical_low |-> Dollars(MinOf(history)),
           historical_high |-> Dollars(MaxOf(history)),
           most_recent_award |-> Dollars(history[Len(history)]),
           recommended_bid_price |-> Band(_median(focus_prices), history),
           history_prices |-> history ]
    ELSE [ historical_low |-> <<NotStated>>,
           historical_high |-> <<NotStated>>,
           most_recent_award |-> <<NotStated>>,
           recommended_bid_price |-> NotEnoughData,
           history_prices |-> history ]

\* parse_price_history once history is known.
WithHistory(structured_history, current_qty, history) ==
    PriceIntelligence(history,
                      FocusPrices(structured_history, current_qty, history))

\* parse_price_history once structured_history and current_qty are known.
WithStructuredHistory(structured_history, current_qty, text) ==
    WithHistory(structured_history, current_qty,
                HistoryOf(structured_history, text))

parse_price_history(text, rfq_quantity) ==
    WithStructuredHistory(_extract_procurement_history(text),
                          CurrentQty(rfq_quantity), text)

\* The AnalysisResult built from its parts.
AnalysisResult(snapshot, price_intel, compliance) ==
    [ snapshot |-> snapshot,
      compliance_flags |-> compliance,
      price_intelligence |-> price_intel,
      win_probability |-> compute_viability(snapshot, price_intel, compliance),
      risks |-> build_risks(compliance) ]

\* analyze_text once the snapshot is parsed.
WithSnapshot(snapshot, text) ==
    AnalysisResult(snapshot, parse_price_history(text, snapshot.quantity),
                   parse_compliance_flags(text))

analyze_text(text) == WithSnapshot(parse_snapshot(text), text)

\* The documents: up to MaxLines different lines in any order.
Texts ==
    UNION { { t \in [1..n -> Lines] : \A i, j \in 1..n : t[i] = t[j] => i = j } :
            n \in 0..MaxLines }

\* The documents that speak of prices: up to MaxPriceLines different lines.
PricedTexts ==
    UNION { { t \in [1..n -> PriceLines] : \A i, j \in 1..n : t[i] = t[j] => i = j } :
            n \in 0..MaxPriceLines }

\* Procurement histories of up to MaxHistory entries.
HistoryTexts == UNION { [1..n -> HistoryLines] : n \in 0..MaxHistory }

\* The quantity parse_snapshot hands over, or None, or an empty text.
RfqQuantities ==
    { NoneText, << >>, <<"1", "0">>, <<"5", "0", "0">>, <<"1", ",", "2", "0", "0">>,
      <<NotStated>> }

InitPrice ==
    /\ program = "parse_price_history"
    /\ args \in [text : PricedTexts \cup HistoryTexts, rfq_quantity : RfqQuantities]
    /\ NoFrontEnd

Call_parse_price_history ==
    /\ program = "parse_price_history"
    /\ last.op = "start"
    /\ last' = [ op |-> "parse_price_history",
                 outcome |-> parse_price_history(args.text, args.rfq_quantity) ]
    /\ UNCHANGED <<program, args, frontEndVars>>

\* parse_price_history applied to one document and one quantity.
SpecPrice == InitPrice /\ [][Call_parse_price_history]_vars

InitAnalyze ==
    /\ program = "analyze_text"
    /\ args \in [text : Texts \cup PricedTexts]
    /\ NoFrontEnd

Call_analyze_text ==
    /\ program = "analyze_text"
    /\ last.op = "start"
    /\ last' = [op |-> "analyze_text", outcome |-> analyze_text(args.text)]
    /\ UNCHANGED <<program, args, frontEndVars>>

\* analyze_text applied to one document.
SpecAnalyze == InitAnalyze /\ [][Call_analyze_text]_vars

(***************************************************************************)
(* hold_resolution.py: the two checklist builders on their own             *)
(***************************************************************************)
\* The appends of the engine builder, after its decision check.
EngineChecklist(compliance_flags) ==
    LET c0 == << >>
        c1 == IF Get(compliance_flags, "cyber", FALSE)
              THEN _append_unique(_append_unique(c0, SprsItem), CmmcItem) ELSE c0
        c2 == IF Get(compliance_flags, "packaging", FALSE)
              THEN _append_unique(c1, PackagingItem) ELSE c1
        c3 == IF Get(compliance_flags, "fdt", FALSE)
              THEN _append_unique(c2, FdtItem) ELSE c2
        c4 == IF Get(compliance_flags, "hazardous", FALSE)
              THEN _append_unique(c3, HazmatItem) ELSE c3
    IN  c4

\* A faulty variant: the decision label is not looked at.
EngineChecklistAnyDecision(decision_label, compliance_flags) ==
    EngineChecklist(compliance_flags)

build_hold_resolution_checklist_for_engine(decision_label, compliance_flags) ==
    IF Upper(decision_label) # "HOLD" THEN << >>
    ELSE EngineChecklist(compliance_flags)

\* The (field, text) pairs a result handed to the authoritative builder may
\* state: Options and a text for each of the other fields the builder reads.
BuilderOptions ==
    Options \cup
    { <<"key_facts.packaging", {"rp001"}>>,
      <<"key_facts.FDT", {"fdt"}>>,
      <<"key_facts.FOB", {"origin"}>>,
      <<"risk.FOB_FDT", {"fob origin"}>>,
      <<"risk.hazmat", {"msds"}>>,
      <<"risk.schedule", {"tight"}>>,
      <<"risk.certifications", {"itar"}>>,
      <<"risk.other", {"none"}>> }

BuilderStatements ==
    { c \in SUBSET BuilderOptions : \A a, b \in c : a[1] = b[1] => a = b }

\* main.py hands the builder the response after _apply_schema_defaults.
BuilderResults ==
    { _apply_schema_defaults(RawPayload(d, c)) :
        d \in RawDecisions, c \in BuilderStatements }

\* The labels the engine builder is given, and asdict(ComplianceFlags).
DecisionLabels == RawDecisions \cup {NotStated}

BuilderArgs ==
    [ result : BuilderResults ]
        \cup [ decision_label : DecisionLabels,
               compliance_flags : [ComplianceFlags -> BOOLEAN] ]

InitBuilders ==
    /\ program = "hold_resolution"
    /\ args \in BuilderArgs
    /\ NoFrontEnd

Call_build_hold_resolution_checklist_for_authoritative ==
    /\ program = "hold_resolution"
    /\ last.op = "start"
    /\ "result" \in DOMAIN args
    /\ last' = [ op |-> "for_authoritative",
                  outcome |->
                    build_hold_resolution_checklist_for_authoritative(args.result) ]
    /\ UNCHANGED <<program, args, frontEndVars>>

Call_build_hold_resolution_checklist_for_engine ==
    /\ program = "hold_resolution"
    /\ last.op = "start"
    /\ "decision_label" \in DOMAIN args
    /\ last' = [ op |-> "for_engine",
                  outcome |->
                    build_hold_resolution_checklist_for_engine(
                        args.decision_label, args.compliance_flags) ]
    /\ UNCHANGED <<program, args, frontEndVars>>

BuildersNext ==
    \/ Call_build_hold_resolution_checklist_for_authoritative
    \/ Call_build_hold_resolution_checklist_for_engine

\* One builder applied to one input.
SpecBuilders == InitBuilders /\ [][BuildersNext]_vars

(***************************************************************************)
(* gov/supply_chain/qpl_validator.py                                       *)
(***************************************************************************)
\* A payload is a dict whose keys are paths: <<key>> at the top, and
\* <<section, key>> for a key of a section that is a dict.  Values are
\* written as their Python literals.
STATUS_PASS == "PASS"

STATUS_FAIL == "FAIL"

STATUS_CONDITIONAL == "CONDITIONAL"

TRUE_VALUES == {"true", "yes", "required", "y"}

\* isinstance(value, str)
IsStr(value) ==
    value \in { "'yes'", "' Required '", "'QPL required'", "'COQC Required'",
                "'no'", "'manufacturer'", "' Authorized-Distributor '",
                "'distributor'", "'reseller'", "'broker'" }

\* value.strip().lower() of the strings drawn.
StripLower(value) ==
    CASE value = "'yes'" -> "yes"
      [] value = "' Required '" -> "required"
      [] value = "'QPL required'" -> "qpl required"
      [] value = "'COQC Required'" -> "coqc required"
      [] value = "'no'" -> "no"
      [] value = "'manufacturer'" -> "manufacturer"
      [] value = "' Authorized-Distributor '" -> "authorized-distributor"
      [] value = "'distributor'" -> "distributor"
      [] value = "'reseller'" -> "reseller"
      [] value = "'broker'" -> "broker"
      [] OTHER -> value

\* token in normalized, for the keys of the module and "required".
Contains(normalized, token) ==
    \/ normalized = token
    \/ normalized = "qpl required" /\ token \in {"qpl", "required"}
    \/ normalized = "coqc required" /\ token \in {"coqc", "required"}

\* True, the int 1, or a string that says so; 1.0 and every other value not.
_is_explicit_true(value) ==
    \/ value = "True"
    \/ value = "1"
    \/ IsStr(value) /\ StripLower(value) \in TRUE_VALUES

\* .replace("-", "_").replace(" ", "_") of a stripped, lowered role.
_normalize_role(value) ==
    IF ~IsStr(value) THEN ""
    ELSE IF StripLower(value) = "authorized-distributor" THEN "authorized_distributor"
    ELSE StripLower(value)

Sections == {"requirements", "compliance", "source_approval", "snapshot", "key_facts"}

\* The values found under the keys, at the top and in the sections that are
\* dicts; _flag_present asks only whether one of them says so.
_extract_nested_values(payload, keys) ==
    { payload[path] : path \in { q \in DOMAIN payload :
          \/ Len(q) = 1 /\ q[1] \in keys
          \/ Len(q) = 2 /\ q[1] \in Sections /\ q[2] \in keys } }

_flag_present(payload, keys) ==
    \E value \in _extract_nested_values(payload, keys) :
        \/ _is_explicit_true(value)
        \/ /\ IsStr(value)
           /\ \E token \in keys : Contains(StripLower(value), token)
           /\ Contains(StripLower(value), "required")

_requires_qpl_or_qml(rfq) ==
    _flag_present(rfq, { "qpl_required", "qml_required", "qpl", "qml",
                         "qualified_products_list", "qualified_manufacturers_list" })

_requires_coqc(rfq) ==
    _flag_present(rfq, {"coqc_required", "coqc", "certificate_of_conformance"})

_is_critical_application_item(rfq) ==
    _flag_present(rfq, {"critical_application_item", "cai"})

_supplier_is_authorized_distributor(supplier) ==
    \/ _is_explicit_true(Get(supplier, <<"authorized_distributor">>, None))
    \/ _is_explicit_true(Get(supplier, <<"authorization">>, None))

\* A faulty variant: only an authorized distributor passes.
QplOutcomeDistributorsOnly(role, authorized_distributor) ==
    IF role \in {"authorized_distributor", "authorized_distributor_only"}
    THEN [status |-> STATUS_PASS, reasons |-> << >>]
    ELSE [ status |-> STATUS_CONDITIONAL,
           reasons |-> <<"QPL/QML item requires manufacturer or authorized distributor",
                         "Supplier authorization not documented">> ]

\* The branches under "if qpl_required": the status and the reasons added.
QplOutcome(role, authorized_distributor) ==
    IF \/ role = "manufacturer"
       \/ role \in {"authorized_distributor", "authorized_distributor_only"}
       \/ role = "distributor" /\ authorized_distributor
    THEN [status |-> STATUS_PASS, reasons |-> << >>]
    ELSE IF role = "reseller" \/ (role = "distributor" /\ ~authorized_distributor)
    THEN [ status |-> STATUS_FAIL,
           reasons |-> <<"QPL/QML item requires manufacturer authorization",
                         IF role = "reseller" THEN "Supplier role is reseller"
                         ELSE "Distributor authorization is not documented">> ]
    ELSE [ status |-> STATUS_CONDITIONAL,
           reasons |-> <<"QPL/QML item requires manufacturer or authorized distributor",
                         "Supplier authorization not documented">> ]

validate_supplier_qpl(rfq, supplier) ==
    LET qpl_required == _requires_qpl_or_qml(rfq)
        coqc_required == _requires_coqc(rfq)
        critical_item == _is_critical_application_item(rfq)
        qpl == IF qpl_required
               THEN QplOutcome(_normalize_role(Get(supplier, <<"role">>, None)),
                               _supplier_is_authorized_distributor(supplier))
               ELSE [status |-> STATUS_PASS, reasons |-> << >>]
        traceability ==
            _is_explicit_true(Get(supplier, <<"manufacturer_traceability">>, None))
        untraced == coqc_required /\ ~traceability
        status == IF untraced THEN STATUS_FAIL ELSE qpl.status
    IN  [ eligible |-> status = STATUS_PASS,
          status |-> status,
          reasons |-> qpl.reasons \o
              (IF untraced
               THEN <<"COQC required but manufacturer traceability is not documented">>
               ELSE << >>),
          risk_flags |-> IF critical_item THEN <<"CRITICAL_APPLICATION_ITEM">>
                         ELSE << >> ]

\* The dict that holds the (path, value) pairs of c.
DictOf(c) ==
    [ path \in { o[1] : o \in c } |-> (CHOOSE o \in c : o[1] = path)[2] ]

\* The dicts made of the options, one value for a key, and no section that
\* is both a dict and another value.
PayloadsOf(options) ==
    { DictOf(c) : c \in { c \in SUBSET options :
          /\ \A a, b \in c : a[1] = b[1] => a = b
          /\ \A a, b \in c : ~(Len(a[1]) = 1 /\ Len(b[1]) = 2 /\ a[1][1] = b[1][1]) } }

RfqOptions ==
    { <<<<"qpl_required">>, "True">>, <<<<"qpl_required">>, "False">>,
      <<<<"qpl_required">>, "'yes'">>, <<<<"qpl_required">>, "'QPL required'">>,
      <<<<"qpl_required">>, "None">>,
      <<<<"coqc">>, "1">>, <<<<"coqc">>, "'COQC Required'">>, <<<<"coqc">>, "'no'">>,
      <<<<"cai">>, "True">>,
      <<<<"requirements">>, "'QPL required'">>,
      <<<<"requirements", "qml">>, "' Required '">>,
      <<<<"key_facts", "coqc_required">>, "True">> }

SupplierOptions ==
    { <<<<"role">>, "None">>, <<<<"role">>, "'manufacturer'">>,
      <<<<"role">>, "' Authorized-Distributor '">>, <<<<"role">>, "'distributor'">>,
      <<<<"role">>, "'reseller'">>, <<<<"role">>, "'broker'">>,
      <<<<"authorized_distributor">>, "True">>,
      <<<<"authorized_distributor">>, "'no'">>,
      <<<<"authorization">>, "'yes'">>,
      <<<<"manufacturer_traceability">>, "True">>,
      <<<<"manufacturer_traceability">>, "False">> }

InitQpl ==
    /\ program = "validate_supplier_qpl"
    /\ args \in [rfq : PayloadsOf(RfqOptions), supplier : PayloadsOf(SupplierOptions)]
    /\ NoFrontEnd

Call_validate_supplier_qpl ==
    /\ program = "validate_supplier_qpl"
    /\ last.op = "start"
    /\ last' = [ op |-> "validate_supplier_qpl",
                 outcome |-> validate_supplier_qpl(args.rfq, args.supplier) ]
    /\ UNCHANGED <<program, args, frontEndVars>>

\* validate_supplier_qpl applied to one rfq and one supplier.
SpecQpl == InitQpl /\ [][Call_validate_supplier_qpl]_vars

(***************************************************************************)
(* gov/decision/authoritative_llm.py: _upload_with_retry                   *)
(***************************************************************************)
\* The defaults of the parameters; run_authoritative_llm passes no others.
retries == 3
backoff == 2

MaxPlanned == 4   \* attempts whose behaviour is drawn, one more than retries

\* What one attempt does: pdf_file.seek raises, client.files.create raises
\* InternalServerError or another error, or it returns the file object.
Behaviours ==
    {"FileObject", "InternalServerError", "APIConnectionError", "ValueError"}

\* backoff**attempt
RECURSIVE Pow(_, _)
Pow(base, exponent) ==
    IF exponent = 0 THEN 1 ELSE base * Pow(base, exponent - 1)

\* The position of the call: the loop variable, where the loop stands, the
\* seeks and the uploads made, the seconds slept, and how the call ended.
Upload ==
    IF last.op = "start"
    THEN [ op |-> "_upload_with_retry", attempt |-> 0, pc |-> "try",
           seeks |-> 0, creates |-> 0, slept |-> << >>, outcome |-> "none" ]
    ELSE last

\* The last attempt re-raised whether or not it was the last.
GivesUpNever(attempt) == FALSE

\* if attempt == retries - 1: raise
GivesUp(attempt) == attempt = retries - 1

InitUpload ==
    /\ program = "_upload_with_retry"
    /\ args \in [behaviour : [1..MaxPlanned -> Behaviours]]
    /\ NoFrontEnd

\* One pass through the try block and, for InternalServerError, its handler
\* up to the sleep.
Attempt ==
    /\ program = "_upload_with_retry"
    /\ Upload.pc = "try"
    /\ Upload.attempt < retries
    /\ LET behaviour == args.behaviour[Upload.attempt + 1]
           sought == [Upload EXCEPT !.seeks = @ + 1]
           created == [sought EXCEPT !.creates = @ + 1]
       IN  last' =
             CASE behaviour = "ValueError" ->
                    [sought EXCEPT !.pc = "raised", !.outcome = behaviour]
               [] behaviour = "FileObject" ->
                    [created EXCEPT !.pc = "returned", !.outcome = behaviour]
               [] behaviour = "InternalServerError" ->
                    IF GivesUp(Upload.attempt)
                    THEN [created EXCEPT !.pc = "raised", !.outcome = behaviour]
                    ELSE [created EXCEPT !.pc = "sleep"]
               [] OTHER ->
                    [created EXCEPT !.pc = "raised", !.outcome = behaviour]
    /\ UNCHANGED <<program, args, frontEndVars>>

\* time.sleep(backoff**attempt) and the next value of range(retries); when
\* the range is used up the function falls off its end and returns None.
Sleep ==
    /\ program = "_upload_with_retry"
    /\ Upload.pc = "sleep"
    /\ LET slept == [Upload EXCEPT !.slept = Append(@, Pow(backoff, Upload.attempt)),
                                   !.attempt = @ + 1]
       IN  last' = IF slept.attempt < retries
                   THEN [slept EXCEPT !.pc = "try"]
                   ELSE [slept EXCEPT !.pc = "returned", !.outcome = None]
    /\ UNCHANGED <<program, args, frontEndVars>>

\* One call of _upload_with_retry, attempt by attempt.
SpecUpload == InitUpload /\ [][Attempt \/ Sleep]_vars

(***************************************************************************)
(* Properties                                                              *)
(***************************************************************************)
BuilderItems == <<SprsItem, CmmcItem, JcpItem, PackagingItem, FdtItem, HazmatItem>>

\* The builder emits the item of this id with blocking = True.
IsBlockingId(id) ==
    \E i \in 1..Len(BuilderItems) : BuilderItems[i].id = id /\ BuilderItems[i].blocking

Answers == {"YES", "NO"}

Rejections == {"not_requester", "expired", "already_completed"}

Accepted == {"next", "complete"}

\* C1: when the last answer of a Discord session is recorded, the outcome is
\* the upgraded decision "BID - conditional" if and only if every blocking
\* item was answered YES, and otherwise a confirmed HOLD that lists exactly
\* the blocking items answered NO.
C1_UpgradeIffAllBlockingYes ==
    (last.op = "_handle_answer" /\ last.outcome = "complete") =>
        LET lines == last.summary.lines
            blockingNo == { i \in DOMAIN lines :
                              IsBlockingId(lines[i].id) /\ lines[i].answer = "NO" }
        IN  IF blockingNo = {}
            THEN last.summary.header = "BID - conditional"
            ELSE /\ last.summary.header = "HOLD checklist complete"
                 /\ { i \in DOMAIN lines : lines[i].blocks_bid } = blockingNo

\* C2: an upload leaves every open Discord session as it was, and a press on
\* the checklist message of one document is recorded only in the session of
\* that document.
C2_SessionsKeyedPerDocument ==
    [][ /\ last'.op = "on_message" =>
              \A u \in DOMAIN user_sessions :
                  u \in DOMAIN user_sessions' /\ user_sessions'[u] = user_sessions[u]
        /\ (last'.op = "_handle_answer" /\ last'.outcome \in Accepted) =>
              \A v \in views, r \in Users, a \in Answers :
                  _handle_answer(v, r, a) => user_sessions[v.user_id].doc = v.doc
      ]_vars

\* C3: every item the builder emits with blocking = True is a blocking item
\* of the Discord session made from it, and its NO answer is reported as
\* blocking the bid in the final summary.
C3_BlockingPreserved ==
    /\ \A u \in DOMAIN user_sessions :
           \A i \in 1..Len(user_sessions[u].checklist) :
               IsBlockingId(user_sessions[u].checklist[i].id)
                   => user_sessions[u].checklist[i].blocks_bid_if_no
    /\ (last.op = "_handle_answer" /\ last.outcome = "complete") =>
           \A i \in DOMAIN last.summary.lines :
               (IsBlockingId(last.summary.lines[i].id)
                    /\ last.summary.lines[i].answer = "NO")
                   => last.summary.lines[i].blocks_bid

\* The analysed document is a HOLD with a non-empty checklist.
HoldWithItems(analysis, checklist) ==
    analysis.ok /\ _derive_decision(analysis.data) = "HOLD" /\ checklist # << >>

\* C4: an upload creates a session only for a HOLD with a non-empty
\* checklist, and then exactly one; every other upload leaves the session
\* registry unchanged, in the Discord handler and in the Telegram handler.
C4_SessionOnlyForHoldWithItems ==
    [][ /\ last'.op = "on_message" =>
              \A author \in Users, analysis \in AnalysisOutcomes :
                  on_message(author, "pdf", analysis) =>
                      IF HoldWithItems(analysis,
                             _normalize_hold_checklist(
                                 _derive_hold_resolution_checklist(analysis.data)))
                      THEN /\ author \in DOMAIN user_sessions'
                           /\ user_sessions'[author].doc = uploads'
                           /\ \A u \in Users \ {author} :
                                  Get(user_sessions', u, EmptyDict)
                                      = Get(user_sessions, u, EmptyDict)
                      ELSE user_sessions' = user_sessions
        /\ last'.op = "handle_document" =>
              \A uploader \in Users, analysis \in AnalysisOutcomes :
                  handle_document(uploader, "pdf", analysis) =>
                      IF HoldWithItems(analysis,
                             generate_checklist(analysis.data, uploads').checklist)
                      THEN DOMAIN CHECKLIST_SESSIONS'
                               = DOMAIN CHECKLIST_SESSIONS \cup {uploads'}
                      ELSE /\ CHECKLIST_SESSIONS' = CHECKLIST_SESSIONS
                           /\ CHECKLIST_INDEX' = CHECKLIST_INDEX
      ]_vars

\* The Discord session has an answer for each of its first current_index
\* items and for no other, and its index is within the checklist.
AnsweredInOrder(session) ==
    /\ session.current_index <= Len(session.checklist)
    /\ DOMAIN session.answers
         = { session.checklist[i].id : i \in 1..session.current_index }
    /\ Cardinality(DOMAIN session.answers) = session.current_index

\* C5: every accepted Discord answer records exactly one answer, for the
\* item at current_index, and increases current_index by exactly one; no
\* index is skipped and current_index never exceeds len(checklist).
C5_OneAnswerOneStep ==
    [][ /\ \A u \in DOMAIN user_sessions' : AnsweredInOrder(user_sessions'[u])
        /\ (last'.op = "_handle_answer" /\ last'.outcome \in Accepted) =>
              \A v \in views, r \in Users, a \in Answers :
                  _handle_answer(v, r, a) =>
                      LET before == user_sessions[v.user_id]
                          item == before.checklist[before.current_index + 1]
                          recorded == DictSet(before.answers, item.id, a)
                      IN  /\ before.current_index < Len(before.checklist)
                          /\ item.id \notin DOMAIN before.answers
                          /\ IF last'.outcome = "next"
                             THEN /\ user_sessions'[v.user_id].current_index
                                       = before.current_index + 1
                                  /\ user_sessions'[v.user_id].answers = recorded
                                  /\ user_sessions'[v.user_id].checklist
                                       = before.checklist
                             ELSE /\ before.current_index + 1 = Len(before.checklist)
                                  /\ \A i \in DOMAIN last'.summary.lines :
                                         last'.summary.lines[i].answer
                                           = recorded[before.checklist[i].id]
      ]_vars

\* C5 witness: a second answer was accepted and the session goes on.
C5_SecondAnswerAccepted ==
    /\ last.op = "_handle_answer"
    /\ last.outcome = "next"
    /\ \E u \in DOMAIN user_sessions : user_sessions[u].current_index = 2

\* C6: a Discord answer from anyone but the user the view was made for is
\* rejected and leaves user_sessions unchanged.
C6_NonOwnerRejected ==
    [][ last'.op = "_handle_answer" =>
            \A v \in views, r \in Users, a \in Answers :
                (r # v.user_id /\ _handle_answer(v, r, a)) =>
                    /\ last'.outcome = "not_requester"
                    /\ user_sessions' = user_sessions
      ]_vars

\* C6 witness: someone else pressed a button while the owner's session was
\* open.
C6_NonOwnerPressedOpenSession ==
    /\ last.op = "_handle_answer"
    /\ last.outcome = "not_requester"
    /\ \E u \in DOMAIN user_sessions : user_sessions[u].current_index = 1

\* C7: Telegram handle_callback records an answer only when the requester
\* uploaded the session's document; any other requester is rejected and the
\* session's responses stay as they were.
C7_OnlyUploaderRecords ==
    [][ last'.op = "handle_callback" =>
            \A r \in Users, d \in CallbackData :
                (handle_callback(r, d) /\ d.colon
                    /\ d.checklist_id \in DOMAIN CHECKLIST_INDEX
                    /\ CHECKLIST_INDEX[d.checklist_id] \in DOMAIN heap
                    /\ r # heap[CHECKLIST_INDEX[d.checklist_id]].uploader) =>
                        /\ last'.outcome # "recorded"
                        /\ heap' = heap
      ]_vars

\* The view's reference, the user id, resolves to a session.
ViewResolves(view) == view.user_id \in DOMAIN user_sessions

\* The item id belongs to a registered session.
LiveItem(id) ==
    \E sid \in DOMAIN CHECKLIST_SESSIONS :
        /\ CHECKLIST_SESSIONS[sid] \in DOMAIN heap
        /\ id \in ItemIdsOf(heap[CHECKLIST_SESSIONS[sid]])

\* A yes/no payload of the shape the buttons carry.
WellFormed(data) == data.colon /\ data.answer \in {"yes", "no"}

\* The Telegram half of C8: a yes/no press on an item of no registered
\* session is answered "expired or unknown" and changes nothing.  (A step
\* that is such a rejection needs no look at which press it was.)
UnknownItemRejected ==
    last'.op = "handle_callback" =>
        \/ /\ last'.outcome = "expired_or_unknown"
           /\ UNCHANGED <<CHECKLIST_SESSIONS, CHECKLIST_INDEX, heap>>
        \/ \A d \in CallbackData :
               (WellFormed(d) /\ ~LiveItem(d.checklist_id)) =>
                   \A r \in Users : ~handle_callback(r, d)

C9_CompletedStaysClosed ==
    [][ last'.op = "_handle_answer" =>
            \A v \in views, r \in Users, a \in Answers :
                _handle_answer(v, r, a) =>
                    /\ last'.outcome = "complete" =>
                           v.user_id \notin DOMAIN user_sessions'
                    /\ v.doc \in completed =>
                           /\ last'.outcome \in Rejections
                           /\ user_sessions' = user_sessions
      ]_vars

\* C10: an answer recorded for an item of a session is never changed by a
\* later answer event, in a Discord session's answers and in a Telegram
\* session's responses.
C10_AnswersImmutable ==
    [][ /\ \A u \in DOMAIN user_sessions :
               (u \in DOMAIN user_sessions'
                    /\ user_sessions'[u].doc = user_sessions[u].doc) =>
                   \A id \in DOMAIN user_sessions[u].answers :
                       /\ id \in DOMAIN user_sessions'[u].answers
                       /\ user_sessions'[u].answers[id] = user_sessions[u].answers[id]
        /\ \A s \in DOMAIN heap :
               s \in DOMAIN heap' =>
                   \A id \in DOMAIN heap[s].responses :
                       /\ id \in DOMAIN heap'[s].responses
                       /\ heap'[s].responses[id] = heap[s].responses[id]
      ]_vars

\* C11: a Discord session whose view timed out is purged from user_sessions,
\* so that no later press or upload can make it answerable again.
C11_TimedOutSessionPurged ==
    \A v \in timed_out :
        ~(/\ v.user_id \in DOMAIN user_sessions
          /\ user_sessions[v.user_id].doc = v.doc)

\* merge_decision has returned for the arguments drawn.
Merged == last.op = "merge_decision"

\* C12: merge_decision returns BID only when the engine recommends BID; with
\* no blocker and an engine recommendation other than SKIP it returns the
\* engine's recommendation with reason "Engine-determined outcome" whatever
\* the advisory says; the advisory's payload is adopted only for an engine
\* SKIP with an advisory HOLD.
C12_EngineIsSourceOfTruth ==
    Merged =>
        LET engine == Get(args.engine_result, "recommendation", None)
            blocker == Truthy(Get(args.engine_result, "compliance_blocker", None))
            advisory == Get(args.llm_result, "final_decision", None)
            engineOutcome == [ final_decision |-> engine,
                               reason |-> "Engine-determined outcome" ]
        IN  /\ Get(last.outcome, "final_decision", None) = "BID" => engine = "BID"
            /\ (~blocker /\ engine # "SKIP") => last.outcome = engineOutcome
            /\ (last.outcome = args.llm_result /\ args.llm_result # engineOutcome)
                  => (engine = "SKIP" /\ advisory = "HOLD")
            /\ (~blocker /\ engine = "SKIP" /\ advisory = "HOLD")
                  => last.outcome = args.llm_result

\* C12 witness: the advisory said BID against an engine HOLD and the engine's
\* HOLD was returned.
C12_AdvisoryBidIgnored ==
    /\ Merged
    /\ Get(args.engine_result, "recommendation", None) = "HOLD"
    /\ Get(args.llm_result, "final_decision", None) = "BID"
    /\ last.outcome.final_decision = "HOLD"

\* C13: with a compliance blocker set, merge_decision returns SKIP with
\* reason "Compliance blocker detected" for every engine recommendation and
\* every advisory result, an advisory HOLD against an engine SKIP included.
C13_BlockerForcesSkip ==
    (Merged /\ Truthy(Get(args.engine_result, "compliance_blocker", None))) =>
        last.outcome = [ final_decision |-> "SKIP",
                         reason |-> "Compliance blocker detected" ]

\* C13 witness: blocker set, engine SKIP, advisory HOLD, and SKIP returned.
C13_BlockerBeatsRelaxation ==
    /\ Merged
    /\ Truthy(Get(args.engine_result, "compliance_blocker", None))
    /\ Get(args.engine_result, "recommendation", None) = "SKIP"
    /\ Get(args.llm_result, "final_decision", None) = "HOLD"
    /\ last.outcome.final_decision = "SKIP"

\* The advisory was asked for and could not be had: no credentials, an empty
\* response, or a response that is not JSON.
AdvisoryFailed ==
    /\ args.with_llm_advisor
    /\ \/ args.api_key = ""
       \/ args.content.kind \in {"empty", "text"}

\* C14: when the advisory is requested and fails, main still returns the
\* deterministic analysis result, the advisory part left out or marked; the
\* failure does not end the run.
C14_AdvisoryFailureNotFatal ==
    (last.op = "main" /\ AdvisoryFailed) =>
        /\ last.outcome.exit = "0"
        /\ Get(last.outcome.stdout, "result", EmptyDict) = args.result

\* C15: the score compute_viability returns is an integer from 0 to 100,
\* for every quantity, price history and combination of compliance flags.
C15_ScoreInRange ==
    last.op = "compute_viability" => last.outcome.score \in 0..100

\* C15 witness: every flag on, an unparsable quantity, no price history.
C15_WorstCaseScored ==
    /\ last.op = "compute_viability"
    /\ \A f \in ComplianceFlags : args.compliance[f]
    /\ ~ParseInt(RemoveCommas(args.snapshot.quantity)).ok
    /\ args.price.history_prices = << >>
    /\ last.outcome.score < 50

\* The arguments drawn, with one compliance flag switched on.
WithFlag(flag) == [args.compliance EXCEPT ![flag] = TRUE]

\* What switching the flag on takes off the unclamped score.
PenaltyOf(snapshot, price, compliance, flag) ==
    UnclampedScore(snapshot, price, compliance)
        - UnclampedScore(snapshot, price, [compliance EXCEPT ![flag] = TRUE])

AllFlagsOff == [f \in ComplianceFlags |-> FALSE]

\* C16: switching any single compliance flag from false to true, all else
\* the same, lowers the unclamped score by a fixed positive amount (the same
\* whatever the other inputs) and adds a clause to the rationale.
C16_EachFlagHasPenalty ==
    last.op = "compute_viability" =>
        \A flag \in ComplianceFlags :
            ~args.compliance[flag] =>
                LET penalty == PenaltyOf(args.snapshot, args.price,
                                         args.compliance, flag)
                    flagged == compute_viability(args.snapshot, args.price,
                                                 WithFlag(flag))
                IN  /\ penalty > 0
                    /\ penalty = PenaltyOf(args.snapshot, args.price,
                                           AllFlagsOff, flag)
                    /\ Len(flagged.rationale) = Len(last.outcome.rationale) + 1

\* A risk sentence other than the fallback.
FlagRisks(risks) == SelectSeq(risks, LAMBDA r : r # DEFAULT_NON_RISK)

\* C18: build_risks returns one risk entry for each active compliance flag,
\* and the fallback sentence is in the list if and only if no flag is active.
C18_OneRiskPerActiveFlag ==
    last.op = "compute_viability" =>
        LET active == { f \in ComplianceFlags : args.compliance[f] }
            fallback == \E i \in 1..Len(last.risks) : last.risks[i] = DEFAULT_NON_RISK
        IN  /\ Len(FlagRisks(last.risks)) = Cardinality(active)
            /\ fallback <=> active = {}

\* The document has the line.
HasLine(line) == \E n \in 1..Len(args.text) : args.text[n] = line

\* The document has the three lines of scenario A.
ScenarioA ==
    \A line \in { <<"RFQ", "SPE4A6-24-Q-1234">>, <<"QTY", "25">>,
                   <<"NIST", "SP", "800-171">> } : HasLine(line)

\* The document states its quantity once.
OneQuantity ==
    ~HasLine(<<"QTY", "600", "EA">>) /\ ~HasLine(<<"CLIN", "0001", "QTY", "1,200">>)

\* C17: for a text with "RFQ SPE4A6-24-Q-1234", "QTY 25" and "NIST SP
\* 800-171", analyze_text gives identifier confidence extracted, quantity
\* 25, cyber true, and a score with the small-quantity bonus and the cyber
\* penalty in it.
C17_ScenarioA ==
    (last.op = "analyze_text" /\ ScenarioA) =>
        LET result == last.outcome
            rationale == result.win_probability.rationale
        IN  /\ result.snapshot.rfq_id_confidence = "extracted"
            /\ result.snapshot.quantity = <<"2", "5">>
            /\ result.compliance_flags.cyber
            /\ \E i \in 1..Len(rationale) :
                   rationale[i] = "Manageable quantity supports quick delivery."
            /\ \E i \in 1..Len(rationale) :
                   rationale[i] = "Cyber clauses present; ensure SPRS/NIST readiness."
            /\ result.win_probability.score = 60 + 4 - 7

\* C17 (as the code has it): for a text with "RFQ SPE4A6-24-Q-1234", "QTY 25"
\* and "NIST SP 800-171" and no other quantity, analyze_text gives quantity
\* 25, cyber true and a score with the small-quantity bonus and the cyber
\* penalty in it; the identifier confidence is inferred, and extracted only
\* when the text also has a "1. REQUEST NO." box.
C17_ScenarioAInferred ==
    (last.op = "analyze_text" /\ ScenarioA /\ OneQuantity) =>
        LET result == last.outcome
            rationale == result.win_probability.rationale
        IN  /\ result.snapshot.rfq_id_confidence =
                 IF HasLine(<<"1.", "REQUEST", "NO.", "SPE4A6-24-Q-1234">>)
                 THEN "extracted" ELSE "inferred"
            /\ result.snapshot.rfq_number = "SPE4A6-24-Q-1234"
            /\ result.snapshot.quantity = <<"2", "5">>
            /\ result.compliance_flags.cyber
            /\ \E i \in 1..Len(rationale) :
                   rationale[i] = "Manageable quantity supports quick delivery."
            /\ \E i \in 1..Len(rationale) :
                   rationale[i] = "Cyber clauses present; ensure SPRS/NIST readiness."

\* The three lines of scenario A, and nothing else, were analysed.
C17_ScenarioAAnalyzed ==
    /\ last.op = "analyze_text"
    /\ args.text = << <<"RFQ", "SPE4A6-24-Q-1234">>, <<"QTY", "25">>,
                      <<"NIST", "SP", "800-171">> >>
    /\ last.outcome.snapshot.rfq_id_confidence = "inferred"
    /\ last.outcome.win_probability.score = 60 + 4 - 7

\* A builder has returned.
Built == last.op \in {"for_authoritative", "for_engine"}

\* The decision of the input the builder was given.
InputDecision ==
    IF "result" \in DOMAIN args THEN args.result.decision ELSE args.decision_label

\* C19: either builder returns the empty checklist for every input whose
\* decision is not HOLD (in any letter case), whatever risk text or
\* compliance flags the input carries.
C19_NonHoldEmpty ==
    (Built /\ InputDecision \notin {"HOLD", "hold"}) => last.outcome = << >>

\* The engine builder was given the label BID with the cyber and packaging
\* flags set, for which HOLD gives three items, and returned nothing.
C19_BidWithCyberFlagEmpty ==
    /\ last.op = "for_engine"
    /\ args.decision_label = "BID"
    /\ args.compliance_flags["cyber"]
    /\ args.compliance_flags["packaging"]
    /\ last.outcome = << >>

\* C20: the checklist either builder returns has pairwise distinct item ids
\* and pairwise distinct question texts, whichever triggers fired.
C20_ItemsDistinct ==
    Built =>
        \A i, j \in 1..Len(last.outcome) :
            i # j => /\ last.outcome[i].id # last.outcome[j].id
                     /\ last.outcome[i].question # last.outcome[j].question

\* Both paths to the SPRS item fired (a cyber key fact and a NIST risk text)
\* together with the packaging trigger, and the item is there once.
C20_BothCyberPathsOneItem ==
    /\ last.op = "for_authoritative"
    /\ Upper(args.result.decision) = "HOLD"
    /\ args.result.key_facts.cyber # {}
    /\ "nist" \in args.result.bid_risk_and_compliance_exposure.cybersecurity
    /\ Cardinality({ i \in 1..Len(last.outcome) : last.outcome[i].id = "sprs_score" }) = 1
    /\ Len(last.outcome) >= 2

\* parse_price_history has returned.
Priced == last.op = "parse_price_history"

\* No pattern of parse_price_history takes a price of 200 dollars or less,
\* or a unit estimate of 200 dollars or less, from the text.
NoPriceEntry(text) ==
    /\ _extract_procurement_history(text) = << >>
    /\ FlatMap(UnitOf, AmountMatches(text, 1, -1)) = << >>
    /\ CurrencyOnlyPrices(text) = << >>

\* C21: a text that yields no price entry gives history_prices = None and
\* recommended_bid_price = "Not enough data", and history_prices is never
\* the empty list.
C21_NoEntryIsNone ==
    Priced =>
        /\ NoPriceEntry(args.text) =>
             /\ last.outcome.history_prices = NoneList
             /\ last.outcome.recommended_bid_price = NotEnoughData
        /\ last.outcome.history_prices # << >>

\* A document of two lines without a currency sign was parsed: no history.
C21_NoCurrencyParsed ==
    /\ Priced
    /\ args.text = << <<"PROCUREMENT", "HISTORY">>, <<"QTY", "10">> >>
    /\ last.outcome.history_prices = NoneList
    /\ last.outcome.recommended_bid_price = NotEnoughData

\* The low and the high end of a recommended band, in cents.
BandEnds(recommended_bid_price) ==
    [ low |-> 100 * recommended_bid_price[2] + recommended_bid_price[3],
      high |-> 100 * recommended_bid_price[6] + recommended_bid_price[7] ]

\* The band is 3.5% below and above the (doubled) median, to the cent.
BandAround(recommended_bid_price, median) ==
    /\ recommended_bid_price # NotEnoughData
    /\ Abs(400 * BandEnds(recommended_bid_price).low - 193 * median) <= 200
    /\ Abs(400 * BandEnds(recommended_bid_price).high - 207 * median) <= 200

\* The prices of the entries whose index is in S.
PricesAt(entries, S) ==
    LET chosen == SelectSeq([ i \in 1..Len(entries) |-> i ], LAMBDA i : i \in S)
    IN  [ k \in 1..Len(chosen) |-> entries[chosen[k]][2] ]

\* S holds count entries, none of them farther from qty than one left out.
Closest(entries, S, count, qty) ==
    /\ Cardinality(S) = count
    /\ \A i \in S, j \in (1..Len(entries)) \ S :
          Abs(entries[i][1] - qty) <= Abs(entries[j][1] - qty)

\* C22: with structured (quantity, price) entries and a numeric requested
\* quantity the recommended band is 3.5% below and above the median of the
\* min(5, n) entries closest in quantity; without entries or without a
\* numeric quantity it is around the median of all history prices.
C22_BandAroundClosest ==
    (Priced /\ last.outcome.history_prices # NoneList) =>
        LET entries == _extract_procurement_history(args.text)
            current_qty == CurrentQty(args.rfq_quantity)
        IN  IF entries # << >> /\ current_qty.ok
            THEN \E S \in SUBSET (1..Len(entries)) :
                    /\ Closest(entries, S, Min(5, Len(entries)), current_qty.value)
                    /\ BandAround(last.outcome.recommended_bid_price,
                                  _median(PricesAt(entries, S)))
            ELSE BandAround(last.outcome.recommended_bid_price,
                            _median(last.outcome.history_prices))

\* Six entries and a numeric quantity: the band is around the median of the
\* five closest, which is not the median of all six.
C22_SixthEntryLeftOut ==
    /\ Priced
    /\ Len(_extract_procurement_history(args.text)) = 6
    /\ CurrentQty(args.rfq_quantity).ok
    /\ ~BandAround(last.outcome.recommended_bid_price,
                   _median(last.outcome.history_prices))

\* The three history lines of scenario B, in any order, and the quantity 10.
ScenarioB ==
    /\ Len(args.text) = 3
    /\ { args.text[n] : n \in 1..3 } =
         { <<"10", "EA", "$45.00">>, <<"12", "EA", "$47.50">>, <<"8", "EA", "$44.00">> }
    /\ args.rfq_quantity = <<"1", "0">>

\* C23: for the history lines "10 EA $45.00", "12 EA $47.50", "8 EA $44.00"
\* and the requested quantity 10, the low is $44.00, the high $47.50 and the
\* band is centred on the median of the entries with quantities 10 and 8.
C23_ScenarioB ==
    (Priced /\ ScenarioB) =>
        /\ last.outcome.historical_low = Dollars(4400)
        /\ last.outcome.historical_high = Dollars(4750)
        /\ BandAround(last.outcome.recommended_bid_price, 4500 + 4400)

\* C23 (as the code has it): for those lines and that quantity the low is
\* $44.00, the high $47.50 and the band, $43.42 - $46.57, is centred on
\* $45.00, the median of all three entries.
C23_ScenarioBAllThree ==
    (Priced /\ ScenarioB) =>
        /\ last.outcome.historical_low = Dollars(4400)
        /\ last.outcome.historical_high = Dollars(4750)
        /\ BandAround(last.outcome.recommended_bid_price, 2 * 4500)
        /\ last.outcome.recommended_bid_price =
             Dollars(4342) \o <<" - ">> \o Dollars(4657)

\* Scenario B in the order of the claim was parsed.
C23_ScenarioBParsed ==
    /\ Priced
    /\ args.text = << <<"10", "EA", "$45.00">>, <<"12", "EA", "$47.50">>,
                      <<"8", "EA", "$44.00">> >>
    /\ args.rfq_quantity = <<"1", "0">>
    /\ last.outcome.history_prices = <<4500, 4750, 4400>>

\* C29: recommended_bid_price is "Not enough data" exactly when
\* history_prices is None; so in analyze_text compute_viability never falls
\* back to the most recent price and target_price_range is
\* recommended_bid_price.
C29_NoDataIffNone ==
    last.op = "analyze_text" =>
        LET price == last.outcome.price_intelligence
        IN  /\ price.recommended_bid_price = NotEnoughData
                 <=> price.history_prices = NoneList
            /\ last.outcome.win_probability.target_price_range =
                 price.recommended_bid_price

\* A document with a price history was analysed: the target is the band.
C29_BandIsTarget ==
    /\ last.op = "analyze_text"
    /\ last.outcome.price_intelligence.history_prices = <<4500, 4400>>
    /\ last.outcome.win_probability.target_price_range # NotEnoughData
    /\ last.outcome.win_probability.target_price_range =
         last.outcome.price_intelligence.recommended_bid_price

\* C24: validate_supplier_qpl returns a record of eligible, status, reasons
\* and risk_flags for every rfq and supplier; eligible is true exactly when
\* the status is PASS; and an RFQ that requires QPL/QML, with a manufacturer
\* and no unmet COQC requirement, passes.
C24_EligibleIffPass ==
    last.op = "validate_supplier_qpl" =>
        LET result == last.outcome
            manufacturer ==
                /\ <<"role">> \in DOMAIN args.supplier
                /\ args.supplier[<<"role">>] = "'manufacturer'"
            traced ==
                /\ <<"manufacturer_traceability">> \in DOMAIN args.supplier
                /\ args.supplier[<<"manufacturer_traceability">>] = "True"
        IN  /\ DOMAIN result = {"eligible", "status", "reasons", "risk_flags"}
            /\ result.status \in {STATUS_PASS, STATUS_FAIL, STATUS_CONDITIONAL}
            /\ result.eligible <=> result.status = STATUS_PASS
            /\ ( /\ _requires_qpl_or_qml(args.rfq)
                 /\ manufacturer
                 /\ (_requires_coqc(args.rfq) => traced) )
                 => result.status = STATUS_PASS

\* The payloads of the unit test: qpl_required true and a manufacturer.
C24_ManufacturerPasses ==
    /\ last.op = "validate_supplier_qpl"
    /\ args.rfq = DictOf({<<<<"qpl_required">>, "True">>})
    /\ args.supplier = DictOf({<<<<"role">>, "'manufacturer'">>})
    /\ last.outcome.eligible
    /\ last.outcome.status = STATUS_PASS

\* C26: whatever the quantity, price history, flags and award eligibility,
\* the score compute_viability reaches before clamping lies between 37 and
\* 78, so max(0, min(100, score)) returns it unchanged and the
\* recommendation is never the high-confidence tier (score >= 80).
C26_ScoreBetween37And78 ==
    last.op = "compute_viability" =>
        LET score == UnclampedScore(args.snapshot, args.price, args.compliance)
        IN  /\ score \in 37..78
            /\ Clamp(score) = score
            /\ last.outcome.score = score
            /\ last.outcome.recommendation # Recommendation(80)
            /\ last.outcome.recommendation # "Bid - High Confidence"

\* C26 witness: stable prices, a small quantity, no flag and an eligible
\* award give the highest score, 78, and the moderate tier.
C26_BestCaseIsModerate ==
    /\ last.op = "compute_viability"
    /\ \A f \in ComplianceFlags : ~args.compliance[f]
    /\ args.snapshot.automated_award = "Eligible"
    /\ UnclampedScore(args.snapshot, args.price, args.compliance) = 78
    /\ last.outcome.score = 78
    /\ last.outcome.recommendation = "Bid - Moderate Competition"

\* The advisory result main merged, when the advisor returned one.
AdvisorMerged ==
    /\ last.op = "main"
    /\ args.with_llm_advisor
    /\ last.outcome.exit = "0"

\* C27: in the pipeline of main (engine_result_from_analysis, then
\* merge_decision) the normalized recommendation is BID or SKIP and never
\* HOLD, compliance_blocker is false so the blocker rule does not fire, and
\* the merged final_decision is HOLD only when the engine tier is Skip and
\* the advisory result says HOLD; otherwise it is the engine's BID or SKIP.
C27_PipelineBidOrSkip ==
    AdvisorMerged =>
        LET label == args.result.win_probability.recommendation
            engine_result == engine_result_from_analysis(args.result)
            llm_result == last.outcome.stdout.llm_advisor.llm_output
            merged == last.outcome.stdout.llm_advisor.final_decision
            relaxed == /\ label = "Skip"
                       /\ "final_decision" \in DOMAIN llm_result
                       /\ llm_result.final_decision = "HOLD"
        IN  /\ engine_result.recommendation \in {"BID", "SKIP"}
            /\ engine_result.recommendation = "SKIP" <=> label = "Skip"
            /\ engine_result.compliance_blocker = "False"
            /\ ~ComplianceBlocked(engine_result)
            /\ "reason" \in DOMAIN merged =>
                  merged.reason # "Compliance blocker detected"
            /\ merged.final_decision = "HOLD" <=> relaxed
            /\ relaxed => merged = llm_result
            /\ ~relaxed =>
                  merged = [ final_decision |-> engine_result.recommendation,
                             reason |-> "Engine-determined outcome" ]

\* C27 witness: the engine tier is Skip and the advisor says HOLD, and the
\* merged decision is the advisor's HOLD.
C27_SkipRelaxedToHold ==
    /\ AdvisorMerged
    /\ args.result.win_probability.recommendation = "Skip"
    /\ engine_result_from_analysis(args.result).recommendation = "SKIP"
    /\ last.outcome.stdout.llm_advisor.final_decision.final_decision = "HOLD"

\* The attempts made so far all raised InternalServerError but the last.
FailedBefore(n) ==
    \A k \in 1..(n - 1) : args.behaviour[k] = "InternalServerError"

\* C30: _upload_with_retry uploads at most 3 times; it returns the file of
\* the first attempt that succeeds; it tries again only after an
\* InternalServerError, having slept 1 and then 2 seconds; the third
\* InternalServerError in a row is raised; any other exception is raised by
\* the attempt it occurs in; and the call never ends by returning None.
C30_UploadRetried ==
    last.op = "_upload_with_retry" =>
        /\ last.creates <= 3 /\ last.seeks <= 3
        /\ last.slept \in {<< >>, <<1>>, <<1, 2>>}
        /\ last.pc \in {"try", "sleep", "returned", "raised"}
        /\ last.pc = "try" =>
              /\ last.attempt < 3
              /\ last.seeks = last.attempt /\ Len(last.slept) = last.attempt
              /\ FailedBefore(last.attempt + 1)
        /\ last.pc = "sleep" =>
              /\ last.attempt < 2
              /\ args.behaviour[last.attempt + 1] = "InternalServerError"
        /\ last.pc = "returned" =>
              /\ last.outcome = "FileObject"
              /\ args.behaviour[last.creates] = "FileObject"
              /\ FailedBefore(last.creates)
              /\ Len(last.slept) = last.creates - 1
        /\ last.pc = "raised" =>
              /\ last.outcome = args.behaviour[last.seeks]
              /\ last.outcome # "FileObject"
              /\ FailedBefore(last.seeks)
              /\ Len(last.slept) = last.seeks - 1
              /\ last.outcome = "InternalServerError" =>
                    last.creates = 3 /\ last.slept = <<1, 2>>
        /\ last.pc \in {"try", "sleep"} <=> ENABLED (Attempt \/ Sleep)

\* C30 witness: three InternalServerErrors in a row; after sleeping 1 and 2
\* seconds the third one is raised and the fourth behaviour is never tried.
C30_ThirdFailureRaised ==
    /\ last.op = "_upload_with_retry"
    /\ \A k \in 1..3 : args.behaviour[k] = "InternalServerError"
    /\ args.behaviour[4] = "FileObject"
    /\ last.pc = "raised"
    /\ last.outcome = "InternalServerError"
    /\ last.creates = 3
    /\ last.slept = <<1, 2>>

RegistryIds ==
    DOMAIN CHECKLIST_SESSIONS \cup { CHECKLIST_INDEX[id] : id \in DOMAIN CHECKLIST_INDEX }

\* The item ids the registry speaks of, as index keys or in a checklist.
RegistryItems ==
    DOMAIN CHECKLIST_INDEX
        \cup UNION { ItemIdsOf(heap[CHECKLIST_SESSIONS[sid]]) :
                       sid \in DOMAIN CHECKLIST_SESSIONS }

====
